---- MODULE Spec2Model ----
(***************************************************************************)
(* Model of the lldb storage stack of cznic/exp: MemFiler, the bitFiler    *)
(* overlay, RollbackFiler (structural transactions), ACIDFiler0 (WAL and   *)
(* two phase commit) and the block Allocator.                              *)
(*                                                                         *)
(* Offsets are 0 based as in the Go code; TLA+ sequences are 1 based, so   *)
(* byte i of a Go slice s is s[i+1] here.  x >> k is x \div 2^k and        *)
(* x & (2^k - 1) is x % 2^k (both floor, as Go's arithmetic shift and      *)
(* two's complement mask are).                                             *)
(***************************************************************************)
EXTENDS Integers, Sequences, FiniteSets, TLC

VARIABLES
    f,          \* the wrapped Filer (a MemFiler): RollbackFiler.f, ACIDFiler0.db
    stack,      \* chain of bitFilers: stack[Len(stack)] is RollbackFiler.bitFiler,
                \* stack[k].parent is stack[k-1], stack[1].parent is f
    tlevel,     \* RollbackFiler.tlevel
    lastOp,     \* name of the last method invoked
    lastErr,    \* its result: "nil", "EPERM", "EINVAL", "EOF", "ILSEQ", "panic"
    lastLevel,  \* tlevel when the last method was invoked
    lastRead,   \* bytes returned by the last ReadAt
    fPre,       \* history: f when the outermost transaction was opened
    wcalls,     \* history: writerAt.WriteAt calls since then
    ckpts,      \* history: checkpoint invocations since then
    g,          \* history: mirror MemFilers, g[k+1] received what level k received
    snap,       \* history: snap[k] is what ReadAt/Size returned before BeginUpdate k
    lastSnap,   \* history: the snapshot the last Rollback had to restore
    plain,      \* history: only BeginUpdate/WriteAt/ReadAt/EndUpdate in this transaction
    depth,      \* history: deepest nesting level of this transaction
    nops,       \* number of operations performed (bounds the run)
    wal,        \* the WAL file: sequence of 16 byte aligned packets
    walPos,     \* file position of the WAL's descriptor, in packets
    walSynced,  \* the WAL was fsynced after its last change
    bwal,       \* ACIDFiler0.bwal: BwalNil or the packets buffered by bufio.Writer
    data,       \* ACIDFiler0.data: offset -> bytes
    pc,         \* position inside NewACIDFiler / the checkpoint callback
    sz,         \* local sz of the checkpoint callback / recoverDb
    todo,       \* offsets of data not yet written to db in phase 2 / recovery
    dbSynced,   \* db was fsynced after its last change
    txView,     \* history: the transaction's size, the mirror's bytes and plain when
                \* the outermost EndUpdate was called
    crashAt,    \* history: pc at the last crash
    crashWal,   \* history: the WAL file at the last crash
    crashF,     \* history: db at the last crash
    openErr,    \* result of the last NewACIDFiler
    af,         \* Allocator.f, the Filer holding the blocks
    flt,        \* Allocator.flt: slot -> head, for the slots with a head
    fltf,       \* the Filer the FLT heads are persisted in
    kind,       \* the FLT kind the Allocator was created with
    ref,        \* history: valid handle -> the content it was last given, by
                \* which method, and whether other handles were used since
    aop,        \* the last Allocator method invoked, its handle and result
    wlog,       \* history: the writerAt.WriteAt calls of the last outermost EndUpdate,
                \* in call order, each with the n and err it returned
    punched,    \* history: the bytes of the whole pages the last PunchHole covered
    mem,        \* a MemFiler with its page map: the outer Filer of an InnerFiler
    inner,      \* InnerFiler.off
    mop,        \* the last InnerFiler method invoked, its arguments and result
    cut,        \* history: the lowest size mem was truncated to, and the byte
                \* ranges written since
    atx,        \* history: the nested transaction level around the Allocator
    filer,      \* which non-transactional Filer the nesting counter belongs to
    nest,       \* its field nest
    pending,    \* history: BeginUpdate calls not yet balanced by EndUpdate or Rollback
    fop,        \* the last method invoked on it, pending before the call, its result
    damage,     \* history: the damage done to the Allocator's file before Verify
    bkl,        \* DB.bkl: "free" or the goroutine that holds it
    thr,        \* goroutine -> the DB method it runs, its position in it, and the
                \* Lock and Unlock calls on bkl since the method or step began
    dbst,       \* DB.closed, DB.stop, the keys left in the tree the victor shreds,
                \* the victor's local finished
    cm          \* cache.m, the MemFiler holding the cached pages of the Filer mem

rbVars == <<f, stack, tlevel, lastOp, lastErr, lastLevel, lastRead>>
histVars == <<fPre, wcalls, ckpts, g, snap, lastSnap, plain, depth, nops>>
acidVars == <<wal, walPos, walSynced, bwal, data, pc, sz, todo, dbSynced, txView, crashAt, crashWal, crashF, openErr>>
allocVars == <<af, flt, fltf, kind, ref, aop>>
nestVars == <<filer, nest, pending, fop>>
dbVars == <<bkl, thr, dbst>>
auxVars == <<nestVars, damage, dbVars, cm>>
storeVars == <<rbVars, histVars, acidVars, allocVars, wlog, punched, mem, inner, mop, cut, atx>>
lockFrame == <<storeVars, nestVars, damage, cm>>
extVars == <<wlog, punched, mem, inner, mop, cut, atx, auxVars>>
vars == <<rbVars, histVars, acidVars, allocVars, extVars>>

\* ---------------------------------------------------------------- bounds
MaxLevel == 2
MaxOps == 5
MaxFill == 16
BufCap == 2
MaxLive == 2
MaxAOps == 5
MaxMemOps == 3
MaxCachePages == 2
MaxKeys == 2
MaxCalls == 2
MaxNest == 4

\* ---------------------------------------------------------------- constants
bfBits == 3
bfSize == 8
bfMask == 7
pgBits == 16
pgSize == 65536

\* ---------------------------------------------------------------- helpers
Max(a, b) ==
    IF a >= b THEN a ELSE b

Min(a, b) ==
    IF a <= b THEN a ELSE b

Zeros(n) ==
    [i \in 1..n |-> 0]

RECURSIVE Trim(_)
Trim(s) ==
    IF Len(s) > 0 /\ s[Len(s)] = 0 THEN Trim(SubSeq(s, 1, Len(s) - 1)) ELSE s

\* copy(dst[off:], b) on a slice that is grown with zeros as needed
Patch(s, b, off) ==
    [i \in 1..Max(Len(s), off + Len(b)) |->
        IF i > off /\ i <= off + Len(b) THEN b[i - off]
        ELSE IF i <= Len(s) THEN s[i] ELSE 0]

\* ---------------------------------------------------------------- MemFiler
\* A MemFiler is [size, pg]: pg is the content of page 0 of the page map m
\* (every offset of the model lies below pgSize), without its trailing zeros;
\* an absent page reads as zeros, as an all zero page does.
NewMemFiler ==
    [size |-> 0, pg |-> <<>>]

MemByte(mf, i) ==
    IF i < Len(mf.pg) THEN mf.pg[i + 1] ELSE 0

MemReadAt(mf, n, off) ==
    LET avail == mf.size - off
        rem == IF n >= avail THEN avail ELSE n
    IN  IF rem > 0 /\ avail > 0 THEN [i \in 1..rem |-> MemByte(mf, off + i - 1)] ELSE <<>>

MemWriteAt(mf, b, off) ==
    [size |-> Max(mf.size, off + Len(b)),
     pg |-> IF Len(b) = 0 THEN mf.pg ELSE Trim(Patch(mf.pg, b, off))]

MemTruncate(mf, size) ==
    IF size = 0 THEN NewMemFiler
    ELSE LET first == (size \div pgSize) + (IF size % pgSize # 0 THEN 1 ELSE 0)
             last == (mf.size \div pgSize) + (IF mf.size % pgSize # 0 THEN 1 ELSE 0)
         IN  [size |-> size, pg |-> IF first <= 0 /\ 0 < last THEN <<>> ELSE mf.pg]

\* filerBytes of the tests: everything ReadAt returns below Size
Bytes(mf) ==
    MemReadAt(mf, mf.size, 0)

\* ---------------------------------------------------------------- bitFiler
\* A bitFiler is [m, size]; m maps the indices of the present pages to
\* [data, flags, dirty].  prev/next exist only while dumpDirty runs.
bitZeroPage ==
    [data |-> Zeros(bfSize), flags |-> [i \in 1..bfSize |-> FALSE], dirty |-> FALSE]

allDirtyFlags ==
    [i \in 1..bfSize |-> TRUE]

newBitFiler(parentSize) ==
    [m |-> <<>>, size |-> parentSize]

PadPage(b) ==
    [i \in 1..bfSize |-> IF i <= Len(b) THEN b[i] ELSE 0]

SetPage(bf, pgI, pg) ==
    [bf EXCEPT !.m = [p \in (DOMAIN bf.m) \cup {pgI} |-> IF p = pgI THEN pg ELSE bf.m[p]]]

RECURSIVE BFReadAt(_, _, _, _, _)
RECURSIVE BFReadLoop(_, _, _, _, _, _, _, _)
RECURSIVE ParentReadAt(_, _, _, _, _)

\* stack[k].parent.ReadAt(b, off) with len(b) = n: [st, b]
ParentReadAt(st, mf, k, n, off) ==
    IF k = 1 THEN [st |-> st, b |-> MemReadAt(mf, n, off)]
    ELSE BFReadAt(st, mf, k - 1, n, off)

BFReadLoop(st, mf, k, pgI, pgO, rem, off, acc) ==
    IF rem = 0 THEN [st |-> st, b |-> acc]
    ELSE LET hit == pgI \in DOMAIN st[k].m
             rd == ParentReadAt(st, mf, k, bfSize, off - (off % bfSize))
             st1 == IF hit THEN st
                    ELSE [rd.st EXCEPT ![k] = SetPage(rd.st[k], pgI, [bitZeroPage EXCEPT !.data = PadPage(rd.b)])]
             pg == st1[k].m[pgI]
             nc == Min(Min(rem, bfSize), bfSize - pgO)
         IN  BFReadLoop(st1, mf, k, pgI + 1, 0, rem - nc, off + nc,
                        acc \o SubSeq(pg.data, pgO + 1, pgO + nc))

\* stack[k].ReadAt(b, off) with len(b) = n: [st, b]; it caches the pages it reads
BFReadAt(st, mf, k, n, off) ==
    LET avail == st[k].size - off
        rem == IF n >= avail THEN avail ELSE n
    IN  IF rem # 0 /\ avail > 0
        THEN BFReadLoop(st, mf, k, off \div bfSize, off % bfSize, rem, off, <<>>)
        ELSE [st |-> st, b |-> <<>>]

RECURSIVE BFWriteLoop(_, _, _, _, _, _, _, _)

\* the loop of writeAt; off is the off of the call, the loop never advances it
BFWriteLoop(st, mf, k, pgI, pgO, b, off, dirty) ==
    IF Len(b) = 0 THEN st
    ELSE LET hit == pgI \in DOMAIN st[k].m
             rd == ParentReadAt(st, mf, k, bfSize, off - (off % bfSize))
             st1 == IF hit THEN st
                    ELSE [rd.st EXCEPT ![k] = SetPage(rd.st[k], pgI, [bitZeroPage EXCEPT !.data = PadPage(rd.b)])]
             pg == st1[k].m[pgI]
             nc == Min(Len(b), bfSize - pgO)
             pg1 == [data |-> [i \in 1..bfSize |-> IF i > pgO /\ i <= pgO + nc THEN b[i - pgO] ELSE pg.data[i]],
                     flags |-> [i \in 1..bfSize |-> IF dirty /\ i > pgO /\ i <= pgO + nc THEN TRUE ELSE pg.flags[i]],
                     dirty |-> dirty \/ pg.dirty]
             st2 == [st1 EXCEPT ![k] = SetPage(st1[k], pgI, pg1)]
         IN  BFWriteLoop(st2, mf, k, pgI + 1, 0, SubSeq(b, nc + 1, Len(b)), off, dirty)

\* stack[k].writeAt(b, off, dirty)
BFwriteAt(st, mf, k, b, off, dirty) ==
    LET st1 == BFWriteLoop(st, mf, k, off \div bfSize, off % bfSize, b, off, dirty)
    IN  [st1 EXCEPT ![k].size = Max(st1[k].size, off + Len(b))]

BFWriteAt(st, mf, k, b, off) ==
    BFwriteAt(st, mf, k, b, off, TRUE)

BFTruncate(bf, size) ==
    IF size = 0 THEN [m |-> <<>>, size |-> 0]
    ELSE LET first == (size \div bfSize) + (IF size % bfSize # 0 THEN 1 ELSE 0)
             last == (bf.size \div bfSize) + (IF bf.size % bfSize # 0 THEN 1 ELSE 0)
             keep == {p \in DOMAIN bf.m : ~(first <= p /\ p < last)}
         IN  [m |-> [p \in keep |-> bf.m[p]], size |-> size]

BFPunchHole(bf, off, size) ==
    LET first == (off \div bfSize) + (IF off % bfSize # 0 THEN 1 ELSE 0)
        off1 == off + size - 1
        last0 == (off1 \div bfSize) - (IF off1 % bfSize # 0 THEN 1 ELSE 0)
        limit == bf.size \div bfSize
        last == IF last0 > limit THEN limit ELSE last0
        holes == {p \in first..last : TRUE}
    IN  [bf EXCEPT !.m = [p \in (DOMAIN bf.m) \cup holes |->
                             IF p \in holes THEN [bitZeroPage EXCEPT !.flags = allDirtyFlags]
                             ELSE bf.m[p]]]

\* ---------------------------------------------------------------- dumpDirty
RECURSIVE RunsFrom(_, _, _, _)
\* the flag scan of one page: the runs <<first, i>> of set flags, in ascending order
RunsFrom(flags, i, first, acc) ==
    IF i = bfSize THEN (IF first >= 0 THEN Append(acc, <<first, bfSize>>) ELSE acc)
    ELSE LET flag == flags[i + 1]
             last == first >= 0
         IN  IF flag /\ ~last THEN RunsFrom(flags, i + 1, i, acc)
             ELSE IF ~flag /\ last THEN RunsFrom(flags, i + 1, -1, Append(acc, <<first, i>>))
             ELSE RunsFrom(flags, i + 1, first, acc)

\* the WriteAt calls of one page whose index variable holds pgI
PageWrites(pg, pgI) ==
    LET runs == RunsFrom(pg.flags, 0, -1, <<>>)
    IN  [j \in 1..Len(runs) |->
            [b |-> SubSeq(pg.data, runs[j][1] + 1, runs[j][2]),
             off |-> pgI * bfSize + runs[j][1]]]

RECURSIVE WalkBack(_, _)
\* for pg.prev != nil && pg.prev.dirty { pg = pg.prev }: the page reached
WalkBack(dirty, p) ==
    IF (p - 1) \in dirty THEN WalkBack(dirty, p - 1) ELSE p

\* the value of the loop variable pgI after walking back from page pgI to page p:
\* the walk moves pg only
WalkBackIndex(pgI, p) ==
    pgI

RECURSIVE DumpChain(_, _, _, _, _)
\* for pg != nil && pg.dirty { ...; pg.dirty = false; pg = pg.next; pgI++ }
DumpChain(bf, dirty, p, pgI, acc) ==
    IF p \notin dirty THEN [dirty |-> dirty, w |-> acc]
    ELSE DumpChain(bf, dirty \ {p}, p + 1, pgI + 1, acc \o PageWrites(bf.m[p], pgI))

RECURSIVE DumpLoop(_, _, _, _, _)
\* for pgI, pg := range f.m, the map being visited in the order `order`
DumpLoop(bf, order, i, dirty, acc) ==
    IF i > Len(order) THEN acc
    ELSE IF order[i] \notin dirty THEN DumpLoop(bf, order, i + 1, dirty, acc)
    ELSE LET p == WalkBack(dirty, order[i])
             r == DumpChain(bf, dirty, p, WalkBackIndex(order[i], p), acc)
         IN  DumpLoop(bf, order, i + 1, r.dirty, r.w)

\* the sequence of w.WriteAt(b, off) calls dumpDirty makes
dumpDirty(bf, order) ==
    DumpLoop(bf, order, 1, {p \in DOMAIN bf.m : bf.m[p].dirty}, <<>>)

\* the orders in which range may visit a map
MapOrders(m) ==
    {o \in [1..Cardinality(DOMAIN m) -> DOMAIN m] : \A i, j \in DOMAIN o : i # j => o[i] # o[j]}

RECURSIVE WriteAllMem(_, _, _)
WriteAllMem(mf, ws, i) ==
    IF i > Len(ws) THEN mf ELSE WriteAllMem(MemWriteAt(mf, ws[i].b, ws[i].off), ws, i + 1)

RECURSIVE WriteAllBF(_, _, _, _, _)
WriteAllBF(st, mf, k, ws, i) ==
    IF i > Len(ws) THEN st ELSE WriteAllBF(BFWriteAt(st, mf, k, ws[i].b, ws[i].off), mf, k, ws, i + 1)

\* ---------------------------------------------------------------- RollbackFiler
Pop(s) ==
    SubSeq(s, 1, Len(s) - 1)

Top(s) ==
    s[Len(s)]

\* RollbackFiler.Size
RSize(st, mf, tl) ==
    IF tl = 0 THEN mf.size ELSE Top(st).size

\* what RollbackFiler.ReadAt returns for the whole file (filerBytes)
RBytes(st, mf, tl) ==
    IF tl = 0 THEN Bytes(mf) ELSE BFReadAt(st, mf, Len(st), Top(st).size, 0).b

\* EndUpdate flushing every level through writerAt
EndUpdateWriterAlways(tl) ==
    "writerAt"

\* EndUpdate's choice of w after r.tlevel--
EndUpdateWriter(tl) ==
    IF tl # 0 THEN "parent" ELSE "writerAt"

\* the size EndUpdate hands to parent.Truncate at an inner level
EndUpdateSize(bf) ==
    bf.size

\* the inputs of the calls
Bufs ==
    {<<1>>, <<2, 3, 4, 5>>}

Offs ==
    {0, 6, 13}

Sizes ==
    {0, 4, 9}

Holes ==
    {<<0, 9>>, <<8, 8>>}

ReadLens ==
    {2, 12}

InitFiles ==
    {NewMemFiler, MemWriteAt(NewMemFiler, [i \in 1..MaxFill |-> 10 + i], 0)}

Live ==
    lastErr # "panic" /\ nops < MaxOps

Done(op, err) ==
    /\ lastOp' = op
    /\ lastErr' = err
    /\ lastLevel' = tlevel
    /\ nops' = nops + 1

BeginUpdate ==
    /\ Live /\ pc = "idle" /\ tlevel < MaxLevel
    /\ stack' = Append(stack, newBitFiler(RSize(stack, f, tlevel)))
    /\ tlevel' = tlevel + 1
    /\ Done("BeginUpdate", "nil")
    /\ fPre' = IF tlevel = 0 THEN f ELSE fPre
    /\ wcalls' = IF tlevel = 0 THEN 0 ELSE wcalls
    /\ ckpts' = IF tlevel = 0 THEN 0 ELSE ckpts
    /\ plain' = IF tlevel = 0 THEN TRUE ELSE plain
    /\ depth' = IF tlevel = 0 THEN 1 ELSE Max(depth, tlevel + 1)
    /\ g' = IF tlevel = 0 THEN <<f, f>> ELSE Append(g, Top(g))
    /\ snap' = Append(snap, RBytes(stack, f, tlevel))
    /\ UNCHANGED <<f, lastRead, lastSnap, acidVars>>
    /\ UNCHANGED <<allocVars, extVars>>

\* RollbackFiler.WriteAt with b and off drawn from bufs and offs
WriteAtOf(bufs, offs) ==
    /\ Live /\ pc = "idle"
    /\ \E b \in bufs, off \in offs :
        IF tlevel = 0
        THEN /\ Done("WriteAt", "EPERM")
             /\ UNCHANGED <<stack, g>>
        ELSE /\ stack' = BFWriteAt(stack, f, Len(stack), b, off)
             /\ g' = [g EXCEPT ![Len(g)] = MemWriteAt(@, b, off)]
             /\ Done("WriteAt", "nil")
    /\ UNCHANGED <<f, tlevel, lastRead, fPre, wcalls, ckpts, snap, lastSnap, plain, depth, acidVars>>
    /\ UNCHANGED <<allocVars, extVars>>

WriteAt ==
    WriteAtOf(Bufs, Offs)

Truncate ==
    /\ Live /\ pc = "idle"
    /\ \E size \in Sizes :
        IF tlevel = 0
        THEN /\ Done("Truncate", "EPERM")
             /\ UNCHANGED <<stack, g, plain>>
        ELSE /\ stack' = [stack EXCEPT ![Len(stack)] = BFTruncate(@, size)]
             /\ g' = [g EXCEPT ![Len(g)] = MemTruncate(@, size)]
             /\ plain' = FALSE
             /\ Done("Truncate", "nil")
    /\ UNCHANGED <<f, tlevel, lastRead, fPre, wcalls, ckpts, snap, lastSnap, depth, acidVars>>
    /\ UNCHANGED <<allocVars, extVars>>

\* the bytes of the overlay pages that lie entirely in [off, off + size)
WholePages(off, size) ==
    {i \in off..(off + size - 1) :
        off <= (i \div bfSize) * bfSize /\ (i \div bfSize) * bfSize + bfSize <= off + size}

PunchHole ==
    /\ Live /\ pc = "idle"
    /\ \E h \in Holes :
        IF tlevel = 0
        THEN /\ Done("PunchHole", "EPERM")
             /\ UNCHANGED <<stack, plain, punched, auxVars>>
        ELSE IF h[1] < 0 \/ h[2] < 0 \/ h[1] + h[2] > Top(stack).size
        THEN /\ Done("PunchHole", "EINVAL")
             /\ UNCHANGED <<stack, plain, punched, auxVars>>
        ELSE /\ stack' = [stack EXCEPT ![Len(stack)] = BFPunchHole(@, h[1], h[2])]
             /\ plain' = FALSE
             /\ punched' = [bytes |-> WholePages(h[1], h[2]), at |-> nops]
             /\ Done("PunchHole", "nil")
    /\ UNCHANGED <<f, tlevel, lastRead, fPre, wcalls, ckpts, g, snap, lastSnap, depth, acidVars>>
    /\ UNCHANGED <<allocVars, wlog, mem, inner, mop, cut, atx, auxVars>>

ReadAt ==
    /\ Live /\ pc = "idle"
    /\ \E n \in ReadLens, off \in Offs :
        IF tlevel = 0
        THEN /\ lastRead' = MemReadAt(f, n, off)
             /\ UNCHANGED stack
        ELSE LET r == BFReadAt(stack, f, Len(stack), n, off)
             IN  /\ lastRead' = r.b
                 /\ stack' = r.st
    /\ Done("ReadAt", "nil")
    /\ UNCHANGED <<f, tlevel, fPre, wcalls, ckpts, g, snap, lastSnap, plain, depth, acidVars>>
    /\ UNCHANGED <<allocVars, extVars>>

\* r.bitFiler = r.bitFiler.parent.(*bitFiler): the assertion panics when the
\* parent is the wrapped Filer
Rollback ==
    /\ Live /\ pc = "idle"
    /\ IF tlevel = 0
       THEN /\ Done("Rollback", "EPERM")
            /\ UNCHANGED <<stack, tlevel, g, snap, lastSnap, plain>>
       ELSE IF Len(stack) = 1
       THEN /\ Done("Rollback", "panic")
            /\ lastSnap' = Top(snap)
            /\ UNCHANGED <<stack, tlevel, g, snap, plain>>
       ELSE /\ stack' = Pop(stack)
            /\ tlevel' = tlevel - 1
            /\ g' = Pop(g)
            /\ snap' = Pop(snap)
            /\ lastSnap' = Top(snap)
            /\ plain' = FALSE
            /\ Done("Rollback", "nil")
    /\ UNCHANGED <<f, lastRead, fPre, wcalls, ckpts, depth, acidVars>>
    /\ UNCHANGED <<allocVars, extVars>>

\* EndUpdate at an inner level: dumpDirty(parent), then parent.Truncate(sz)
EndUpdateInner ==
    /\ Live /\ pc = "idle" /\ tlevel > 1
    /\ \E order \in MapOrders(Top(stack).m) :
        LET k == Len(stack)
            ws == dumpDirty(stack[k], order)
            viaParent == EndUpdateWriter(tlevel - 1) = "parent"
            st1 == IF viaParent THEN WriteAllBF(stack, f, k - 1, ws, 1) ELSE stack
            st2 == Pop(st1)
        IN  /\ stack' = [st2 EXCEPT ![k - 1] = BFTruncate(@, EndUpdateSize(stack[k]))]
            /\ f' = IF viaParent THEN f ELSE WriteAllMem(f, ws, 1)
            /\ wcalls' = IF viaParent THEN wcalls ELSE wcalls + Len(ws)
    /\ tlevel' = tlevel - 1
    /\ g' = Append(Pop(Pop(g)), Top(g))
    /\ snap' = Pop(snap)
    /\ Done("EndUpdate", "nil")
    /\ UNCHANGED <<lastRead, fPre, ckpts, lastSnap, plain, depth, acidVars>>
    /\ UNCHANGED <<allocVars, extVars>>

\* EndUpdate at the outermost level with writerAt = f and the checkpoint of
\* TestRollbackFiler1: sz := r.Size(); f.Truncate(sz)
EndUpdateOuter ==
    /\ Live /\ pc = "idle" /\ tlevel = 1
    /\ \E order \in MapOrders(Top(stack).m) :
        LET ws == dumpDirty(Top(stack), order)
            f1 == WriteAllMem(f, ws, 1)
        IN  /\ f' = MemTruncate(f1, RSize(<<>>, f1, 0))
            /\ wcalls' = wcalls + Len(ws)
    /\ txView' = [size |-> Top(stack).size, b |-> Bytes(Top(g)), plain |-> plain]
    /\ stack' = <<>>
    /\ tlevel' = 0
    /\ ckpts' = ckpts + 1
    /\ g' = <<Top(g)>>
    /\ snap' = <<>>
    /\ Done("EndUpdate", "nil")
    /\ UNCHANGED <<lastRead, fPre, lastSnap, plain, depth, wal, walPos, walSynced, bwal, data, pc, sz, todo, dbSynced, crashAt, crashWal, crashF, openErr>>
    /\ UNCHANGED <<allocVars, extVars>>

\* EndUpdate without the test of r.tlevel == 0
EndUpdateEPERMNil ==
    /\ Live /\ pc = "idle" /\ tlevel = 0
    /\ Done("EndUpdate", "nil")
    /\ UNCHANGED <<f, stack, tlevel, lastRead, fPre, wcalls, ckpts, g, snap, lastSnap, plain, depth, acidVars>>
    /\ UNCHANGED <<allocVars, extVars>>

\* EndUpdate outside of a transaction
EndUpdateEPERM ==
    /\ Live /\ pc = "idle" /\ tlevel = 0
    /\ Done("EndUpdate", "EPERM")
    /\ UNCHANGED <<f, stack, tlevel, lastRead, fPre, wcalls, ckpts, g, snap, lastSnap, plain, depth, acidVars>>
    /\ UNCHANGED <<allocVars, extVars>>

\* ---------------------------------------------------------------- Allocator
\* The Allocator's Filer is a MemFiler again, now with its bytes kept in run
\* length form (a sequence of <<count, byte>> runs, adjacent runs differing),
\* so that blocks of up to maxRq bytes stay small values.  raw holds the
\* bytes of the allocated pages, trailing zeros dropped: as in memfiler.go
\* bytes beyond size survive a Truncate inside the page that holds size.
RCons(run, r) ==
    IF run[1] <= 0 THEN r
    ELSE IF r # <<>> /\ r[1][2] = run[2]
         THEN <<<<run[1] + r[1][1], run[2]>>>> \o Tail(r)
         ELSE <<run>> \o r

RECURSIVE RLenFrom(_, _)
RLenFrom(r, i) ==
    IF i > Len(r) THEN 0 ELSE r[i][1] + RLenFrom(r, i + 1)

RLen(r) ==
    RLenFrom(r, 1)

\* a \o b for run length strings: the runs that meet are joined
RCat(a, b) ==
    IF a = <<>> THEN b
    ELSE IF b = <<>> THEN a
    ELSE IF a[Len(a)][2] = b[1][2]
         THEN SubSeq(a, 1, Len(a) - 1) \o <<<<a[Len(a)][1] + b[1][1], b[1][2]>>>> \o Tail(b)
         ELSE a \o b

RZeros(n) ==
    IF n <= 0 THEN <<>> ELSE <<<<n, 0>>>>

\* the first n bytes of r, zeros where r is shorter
RECURSIVE RTakeFrom(_, _, _)
RTakeFrom(r, i, n) ==
    IF n <= 0 THEN SubSeq(r, 1, i - 1)
    ELSE IF i > Len(r) THEN RCat(r, RZeros(n))
    ELSE IF r[i][1] >= n THEN Append(SubSeq(r, 1, i - 1), <<n, r[i][2]>>)
    ELSE RTakeFrom(r, i + 1, n - r[i][1])

RTake(r, n) ==
    RTakeFrom(r, 1, n)

\* r without its first n bytes
RECURSIVE RDropFrom(_, _, _)
RDropFrom(r, i, n) ==
    IF i > Len(r) THEN <<>>
    ELSE IF n <= 0 THEN SubSeq(r, i, Len(r))
    ELSE IF r[i][1] > n THEN <<<<r[i][1] - n, r[i][2]>>>> \o SubSeq(r, i + 1, Len(r))
    ELSE RDropFrom(r, i + 1, n - r[i][1])

RDrop(r, n) ==
    RDropFrom(r, 1, n)

RECURSIVE RFromSeq(_)
RFromSeq(s) ==
    IF s = <<>> THEN <<>> ELSE RCons(<<1, s[1]>>, RFromSeq(Tail(s)))

\* byte i (from 0) of r, 0 beyond its end
RECURSIVE RByteFrom(_, _, _)
RByteFrom(r, k, i) ==
    IF k > Len(r) \/ i < 0 THEN 0
    ELSE IF i < r[k][1] THEN r[k][2] ELSE RByteFrom(r, k + 1, i - r[k][1])

RByte(r, i) ==
    RByteFrom(r, 1, i)

RTrim(r) ==
    IF r # <<>> /\ r[Len(r)][2] = 0 THEN SubSeq(r, 1, Len(r) - 1) ELSE r

\* NewMemFiler
FNew ==
    [size |-> 0, raw |-> <<>>]

\* MemFiler.ReadAt delivers min(n, size - off) bytes; Allocator.read fails
\* unless that is n
CanRead(F, n, off) ==
    n <= F.size - off

FByte(F, off) ==
    RByte(F.raw, off)

\* n bytes at off; a page below offset 0 is never allocated and reads as zeros
FBytes(F, n, off) ==
    LET r == RDrop(F.raw, off) IN
    [i \in 1..n |-> IF off < 0 THEN RByte(F.raw, off + i - 1) ELSE RByte(r, i - 1)]

FReadAt(F, n, off) ==
    RTake(RDrop(F.raw, off), n)

\* MemFiler.WriteAt: a page of zeros is stored as a missing page, which
\* reads as zeros
FWriteAt(F, b, off) ==
    [size |-> Max(F.size, off + RLen(b)),
     raw |-> IF b = <<>> THEN F.raw
             ELSE RTrim(RCat(RCat(RTake(F.raw, off), b), RDrop(F.raw, off + RLen(b))))]

\* MemFiler.Truncate drops the pages that lie entirely at or above size
FTruncate(F, size) ==
    IF size = 0 THEN FNew
    ELSE [size |-> size,
          raw |-> RTrim(RTake(F.raw, ((size + pgSize - 1) \div pgSize) * pgSize))]

maxShort == 251
maxRq == 65787
maxFLTRq == 4112
tagUsedLong == 252
tagUsedRelocated == 253
tagFreeShort == 254
tagFreeLong == 255
tagNotCompressed == 0
tagCompressed == 1

\* A == (N+1)/16 + 1 for a short block, (N+3)/16 + 1 for a long one
n2atoms(n) ==
    ((IF n > maxShort THEN n + 2 ELSE n) + 1) \div 16 + 1

\* n2padding filling one atom more
n2paddingAtom(n) ==
    31 - (((IF n > maxShort THEN n + 2 ELSE n) + 1) % 16)

\* padding == 15 - (N+1)%16, resp. 15 - (N+3)%16
n2padding(n) ==
    15 - (((IF n > maxShort THEN n + 2 ELSE n) + 1) % 16)

\* M == N % 0x10000
n2m(n) ==
    n % 65536

\* m2n taking the field for the length
m2nNoWrap(m) ==
    m

m2n(m) ==
    IF m <= maxShort THEN m + 65536 ELSE m

h2off(h) ==
    (h - 1) * 16

off2hFloor(off) ==
    off \div 16

off2h(off) ==
    off \div 16 + 1

\* 7 bytes, network byte order.  Handles of the model stay below 2^24, so
\* the four high bytes are zero; a field read back with a nonzero high byte
\* is some handle beyond every file of the model.
h2bLittleEndian(h) ==
    <<h % 256, (h \div 256) % 256, (h \div 65536) % 256, 0, 0, 0, 0>>

h2b(h) ==
    <<0, 0, 0, 0, (h \div 65536) % 256, (h \div 256) % 256, h % 256>>

b2h(b) ==
    (IF b[1] + b[2] + b[3] + b[4] = 0 THEN 0 ELSE 16777216)
        + b[5] * 65536 + b[6] * 256 + b[7]

IsFreeTagShort(tag) ==
    tag = tagFreeShort

IsFreeTag(tag) ==
    tag = tagFreeShort \/ tag = tagFreeLong

\* ---- flt.go
FLTPowersOf2 == 0
FLTFib == 1
FLTFull == 2

fltMinSizes(k) ==
    IF k = FLTPowersOf2
    THEN <<1, 2, 4, 8, 16, 32, 64, 128, 256, 512, 1024, 2048, 4096, 4112>>
    ELSE <<1, 2, 3, 5, 8, 13, 21, 34, 55, 89, 144, 233, 377, 610, 987, 1597, 2584, 4112>>

\* slots are numbered from 1 here: slot i is f.slots[i-1], persisted at 7*(i-1)
nslots(k) ==
    IF k = FLTFull THEN maxFLTRq ELSE Len(fltMinSizes(k))

MinSize(k, i) ==
    IF k = FLTFull THEN i ELSE fltMinSizes(k)[i]

\* newFlt: get[rq] is the first slot with MinSize >= rq, put[rq] the last
\* slot with MinSize <= rq
get(k, rq) ==
    IF k = FLTFull THEN rq
    ELSE CHOOSE i \in 1..nslots(k) :
            MinSize(k, i) >= rq /\ (i = 1 \/ MinSize(k, i - 1) < rq)

put(k, rq) ==
    IF k = FLTFull THEN rq
    ELSE IF rq = maxFLTRq THEN nslots(k)
    ELSE CHOOSE i \in 1..(nslots(k) - 1) :
            MinSize(k, i) <= rq /\ rq <= MinSize(k, i + 1) - 1

fltSize(k) ==
    ((7 * nslots(k) + 15) \div 16) * 16

\* The allocator state threaded through the operators below:
\*   f     Allocator.f
\*   heads fltSlot.head of the slots whose head is not 0
\*   fltf  fltSlot.filer, the Filer the heads are persisted in
\*   kind  the FLT kind
\*   err   "nil" until a step fails; a failed step ends the method, so every
\*         operator returns a failed state as it is
\*   h     the handle alloc returns
Fail(S, e) ==
    [S EXCEPT !.err = e]

SlotHead(S, i) ==
    IF i \in DOMAIN S.heads THEN S.heads[i] ELSE 0

\* SetHead keeping the head in memory only
SetHeadInMemory(S, i, h) ==
    IF S.err # "nil" THEN S
    ELSE [S EXCEPT !.heads = IF h = 0
                             THEN [j \in DOMAIN S.heads \ {i} |-> S.heads[j]]
                             ELSE (i :> h) @@ S.heads]

SetHead(S, i, h) ==
    IF S.err # "nil" THEN S
    ELSE [S EXCEPT !.heads = IF h = 0
                             THEN [j \in DOMAIN S.heads \ {i} |-> S.heads[j]]
                             ELSE (i :> h) @@ S.heads,
                   !.fltf = FWriteAt(S.fltf, RFromSeq(h2b(h)), 7 * (i - 1))]

find(S, needAtoms) ==
    IF S.err # "nil" THEN S
    ELSE IF needAtoms < 1 THEN Fail(S, "panic")
    ELSE LET ix == IF needAtoms >= maxFLTRq THEN nslots(S.kind) ELSE get(S.kind, needAtoms)
             cand == {i \in DOMAIN S.heads : i >= ix}
         IN IF cand = {} THEN [S EXCEPT !.h = 0]
            ELSE LET i == CHOOSE j \in cand : \A k \in cand : j <= k
                 IN [SetHead(S, i, 0) EXCEPT !.h = S.heads[i]]

slotOf(S, atoms) ==
    IF atoms >= maxFLTRq THEN nslots(S.kind) ELSE put(S.kind, atoms)

head(S, atoms) ==
    SlotHead(S, slotOf(S, atoms))

setHeadNone(S, h, atoms) ==
    S

setHead(S, h, atoms) ==
    IF S.err # "nil" THEN S
    ELSE IF atoms < 1 THEN Fail(S, "panic")
    ELSE SetHead(S, slotOf(S, atoms), h)

newCannedFLT(k) ==
    [heads |-> <<>>, fltf |-> FWriteAt(FNew, RZeros(fltSize(k)), 0)]

\* ---- falloc.go
NewAllocator(k) ==
    [f |-> FNew, heads |-> newCannedFLT(k).heads, fltf |-> newCannedFLT(k).fltf,
     kind |-> k, err |-> "nil", h |-> 0]

writeAt(S, b, off) ==
    IF S.err # "nil" THEN S ELSE [S EXCEPT !.f = FWriteAt(S.f, b, off)]

RECURSIVE write(_, _, _)
write(S, off, parts) ==
    IF parts = <<>> THEN S
    ELSE write(writeAt(S, parts[1], off), off + RLen(parts[1]), Tail(parts))

truncateKeep(S, size) ==
    S

truncate(S, size) ==
    IF S.err # "nil" THEN S ELSE [S EXCEPT !.f = FTruncate(S.f, size)]

NoNfo ==
    [err |-> "nil", tag |-> 0, s |-> 0, p |-> 0, n |-> 0]

nfo(F, h) ==
    LET off == h2off(h)
        short == off + 22 >= F.size
        rq == IF short THEN F.size - off ELSE 22
        decode(buf, tag) ==
            IF tag = tagUsedLong
            THEN [NoNfo EXCEPT !.tag = tag, !.s = n2atoms(m2n(buf[2] * 256 + buf[3]))]
            ELSE IF tag = tagFreeLong
            THEN IF rq < 22 THEN [NoNfo EXCEPT !.tag = tag, !.err = "EOF"]
                 ELSE [NoNfo EXCEPT !.tag = tag, !.s = b2h(SubSeq(buf, 2, 8)),
                                    !.p = b2h(SubSeq(buf, 9, 15)),
                                    !.n = b2h(SubSeq(buf, 16, 22))]
            ELSE IF tag = tagUsedRelocated
            THEN [NoNfo EXCEPT !.tag = tag, !.s = 1, !.n = b2h(SubSeq(buf, 2, 8))]
            ELSE IF tag = tagFreeShort
            THEN [NoNfo EXCEPT !.tag = tag, !.s = 1, !.p = b2h(SubSeq(buf, 2, 8)),
                               !.n = b2h(SubSeq(buf, 9, 15))]
            ELSE [NoNfo EXCEPT !.tag = tag, !.s = n2atoms(tag)]
    IN IF short /\ rq < 15 THEN [NoNfo EXCEPT !.err = "EOF"]
       ELSE IF ~CanRead(F, rq, off) THEN [NoNfo EXCEPT !.err = "ILSEQ"]
       ELSE decode(FBytes(F, rq, off), FByte(F, off))

leftNfoNone(F, h) ==
    NoNfo

leftNfo(F, h) ==
    LET off == h2off(h)
        decode(buf) ==
            IF buf[8] = tagFreeShort THEN nfo(F, h - 1)
            ELSE IF buf[8] = tagFreeLong THEN nfo(F, h - b2h(SubSeq(buf, 1, 7)))
            ELSE NoNfo
    IN IF ~(h > 1) THEN NoNfo
       ELSE IF ~CanRead(F, 8, off - 8) THEN [NoNfo EXCEPT !.err = "ILSEQ"]
       ELSE decode(FBytes(F, 8, off - 8))

prevNone(S, h, p) ==
    S

\* Set h.prev = p
prev(S, h, p) ==
    IF S.err # "nil" THEN S
    ELSE LET off == h2off(h) IN
         IF ~CanRead(S.f, 1, off) THEN Fail(S, "ILSEQ")
         ELSE IF FByte(S.f, off) = tagFreeShort THEN writeAt(S, RFromSeq(h2b(p)), off + 1)
         ELSE IF FByte(S.f, off) = tagFreeLong THEN writeAt(S, RFromSeq(h2b(p)), off + 8)
         ELSE Fail(S, "ILSEQ")

\* Set h.next = n
next(S, h, n) ==
    IF S.err # "nil" THEN S
    ELSE LET off == h2off(h) IN
         IF ~CanRead(S.f, 1, off) THEN Fail(S, "ILSEQ")
         ELSE IF FByte(S.f, off) = tagFreeShort THEN writeAt(S, RFromSeq(h2b(n)), off + 8)
         ELSE IF FByte(S.f, off) = tagFreeLong THEN writeAt(S, RFromSeq(h2b(n)), off + 15)
         ELSE Fail(S, "ILSEQ")

makeFree(S, h, atoms, p, n) ==
    LET setNext(S1) == IF p # 0 THEN next(S1, p, h) ELSE S1
        setPrev(S2) == IF n # 0 THEN prev(S2, n, h) ELSE S2
    IN setPrev(setNext(
        IF atoms = 1
        THEN write(S, h2off(h),
                   <<RFromSeq(<<tagFreeShort>> \o h2b(p) \o h2b(n) \o <<tagFreeShort>>)>>)
        ELSE write(write(S, h2off(h),
                         <<RFromSeq(<<tagFreeLong>> \o h2b(atoms) \o h2b(p) \o h2b(n))>>),
                   h2off(h + atoms) - 8,
                   <<RFromSeq(h2b(atoms) \o <<tagFreeLong>>)>>)))

\* Add a free block h to the appropriate free list
link(S, h, atoms) ==
    setHead(makeFree(S, h, atoms, 0, head(S, atoms)), h, atoms)

\* Remove free block h from the free list
unlink(S, h, atoms, p, n) ==
    IF p = 0 /\ n = 0 THEN setHead(S, 0, atoms)
    ELSE IF p = 0 THEN setHead(prev(S, n, 0), n, atoms)
    ELSE IF n = 0 THEN next(S, p, 0)
    ELSE prev(next(S, p, n), n, p)

free2(S, h, atoms) ==
    LET isTail == h2off(h) + atoms * 16 = S.f.size
        \* both neighbours are free: the right one is read again after the
        \* left one is unlinked
        joinBoth(S1, r2, latoms, ratoms) ==
            IF S1.err # "nil" THEN S1
            ELSE IF r2.err # "nil" THEN Fail(S1, r2.err)
            ELSE link(unlink(S1, h + atoms, ratoms, r2.p, r2.n),
                      h - latoms, latoms + atoms + ratoms)
        leftUnlinked(S1, latoms, ratoms) ==
            joinBoth(S1, nfo(S1.f, h + atoms), latoms, ratoms)
        join(l, latoms, r, ratoms) ==
            IF l.err # "nil" THEN Fail(S, l.err)
            ELSE IF r.err # "nil" THEN Fail(S, r.err)
            ELSE IF latoms = 0 /\ ratoms = 0
            THEN IF isTail THEN truncate(S, h2off(h)) ELSE link(S, h, atoms)
            ELSE IF latoms = 0
            THEN link(unlink(S, h + atoms, ratoms, r.p, r.n), h, atoms + ratoms)
            ELSE IF ratoms = 0
            THEN IF isTail
                 THEN truncate(unlink(S, h - latoms, latoms, l.p, l.n), h2off(h - latoms))
                 ELSE link(unlink(S, h - latoms, latoms, l.p, l.n), h - latoms, latoms + atoms)
            ELSE leftUnlinked(unlink(S, h - latoms, latoms, l.p, l.n), latoms, ratoms)
        neighbours(l, r) ==
            join(l, IF IsFreeTag(l.tag) THEN l.s ELSE 0, r, IF IsFreeTag(r.tag) THEN r.s ELSE 0)
    IN IF S.err # "nil" THEN S
       ELSE neighbours(leftNfo(S.f, h), IF isTail THEN NoNfo ELSE nfo(S.f, h + atoms))

\* frees the relocation target, never the block of a relocated handle
freeTargetOnly(S, h, from, acceptRelocs) ==
    LET freeBlock(i) ==
            IF i.err # "nil" THEN Fail(S, i.err)
            ELSE IF i.tag = tagUsedRelocated THEN free2(S, i.n, nfo(S.f, i.n).s)
            ELSE IF IsFreeTag(i.tag) THEN Fail(S, "EINVAL")
            ELSE free2(S, h, i.s)
    IN IF S.err # "nil" THEN S ELSE freeBlock(nfo(S.f, h))

\* frees the block of a relocated handle, never its relocation target
freeNoTarget(S, h, from, acceptRelocs) ==
    LET freeBlock(i) ==
            IF i.err # "nil" THEN Fail(S, i.err)
            ELSE IF IsFreeTag(i.tag) THEN Fail(S, "EINVAL")
            ELSE free2(S, h, i.s)
    IN IF S.err # "nil" THEN S ELSE freeBlock(nfo(S.f, h))

RECURSIVE free(_, _, _, _)
free(S, h, from, acceptRelocs) ==
    LET freeBlock(i) ==
            IF i.err # "nil" THEN Fail(S, i.err)
            ELSE IF i.tag = tagUsedRelocated
            THEN IF ~acceptRelocs THEN Fail(S, "ILSEQ")
                 ELSE free2(free(S, i.n, h, FALSE), h, i.s)
            ELSE IF IsFreeTag(i.tag) THEN Fail(S, "EINVAL")
            ELSE free2(S, h, i.s)
    IN IF S.err # "nil" THEN S ELSE freeBlock(nfo(S.f, h))

\* Compress is false, as NewAllocator leaves it: snappy is never invoked
makeUsedBlock(b) ==
    LET n == RLen(b) IN
    IF n > maxRq THEN [err |-> "EINVAL", c |-> <<>>, rqAtoms |-> 0]
    ELSE [err |-> "nil",
          c |-> [head |-> IF n <= maxShort THEN <<n>>
                          ELSE <<tagUsedLong, n2m(n) \div 256, n2m(n) % 256>>,
                 tail |-> <<tagNotCompressed>>],
          rqAtoms |-> n2atoms(n)]

writeUsedBlock(S, h, c, b) ==
    write(S, h2off(h), <<RFromSeq(c.head), b, RZeros(n2padding(RLen(b))), RFromSeq(c.tail)>>)

GrowHandleShort(size) ==
    size \div 16

\* must grow: h = off2h(a.f.Size())
GrowHandle(size) ==
    off2h(size)

alloc(S, b, c) ==
    LET rqAtoms == n2atoms(RLen(b))
        grow(S0, h) ==
            writeUsedBlock([S0 EXCEPT !.h = h], h, c, b)
        split(S1, h, atoms) ==
            IF atoms > rqAtoms THEN link(S1, h + rqAtoms, atoms - rqAtoms) ELSE S1
        reuse(S0, h, i) ==
            IF i.err # "nil" THEN Fail(S0, i.err)
            ELSE IF ~IsFreeTag(i.tag) THEN Fail(S0, "ILSEQ")
            ELSE IF i.p # 0 THEN Fail(S0, "ILSEQ")
            ELSE IF i.s < rqAtoms THEN Fail(S0, "ILSEQ")
            ELSE writeUsedBlock(split(unlink(S0, h, i.s, i.p, i.n), h, i.s), h, c, b)
        found(S0) ==
            IF S0.err # "nil" THEN S0
            ELSE IF S0.h = 0 THEN grow(S0, GrowHandle(S0.f.size))
            ELSE reuse(S0, S0.h, nfo(S0.f, S0.h))
    IN IF S.err # "nil" THEN S ELSE found(find(S, rqAtoms))

AllocatorAlloc(S, b) ==
    LET made(m) == IF m.err # "nil" THEN Fail(S, m.err) ELSE alloc(S, b, m.c)
    IN made(makeUsedBlock(b))

AllocatorFree(S, handle) ==
    IF handle <= 0 THEN Fail(S, "EINVAL") ELSE free(S, handle, 0, TRUE)

RECURSIVE realloc(_, _, _)
RECURSIVE reallocRetry(_, _, _, _, _, _)
\* the switch of realloc, entered again by "goto retry"
reallocRetry(S, handle, b, c, needAtoms, atoms) ==
    LET fsize == S.f.size
        off == h2off(handle)
        inside == off + atoms * 16 < fsize
        shrink(S1, fh, fa) ==
            IF h2off(fh) + 16 * fa = S1.f.size
            THEN truncate(S1, h2off(fh))
            ELSE free2(S1, fh, fa)
        relocate(S2) ==
            writeUsedBlock(writeAt(S2, RFromSeq(<<tagUsedRelocated>> \o h2b(S2.h)
                                                \o <<0, 0, 0, 0, 0, 0, 0, 0>>),
                                   h2off(handle)),
                           S2.h, c, b)
        extend(r) ==
            IF r.err # "nil" THEN Fail(S, r.err)
            ELSE IF inside /\ IsFreeTag(r.tag) /\ needAtoms <= atoms + r.s
            THEN reallocRetry(unlink(S, handle + atoms, r.s, r.p, r.n),
                              handle, b, c, needAtoms, atoms + r.s)
            ELSE relocate(alloc(IF atoms > 1 THEN realloc(S, handle, <<>>) ELSE S, b, c))
    IN IF S.err # "nil" THEN S
       ELSE IF needAtoms < atoms
       THEN \* in place shrink
            shrink(writeUsedBlock(S, handle, c, b), handle + needAtoms, atoms - needAtoms)
       ELSE IF needAtoms = atoms
       THEN \* in place replace
            writeUsedBlock(S, handle, c, b)
       ELSE \* in place extend or relocate
            IF off + atoms * 16 = fsize
            THEN writeUsedBlock(S, handle, c, b)
            ELSE extend(IF inside THEN nfo(S.f, handle + atoms) ELSE NoNfo)

realloc(S, handle, b) ==
    LET resize(m, b8, tag) ==
            IF IsFreeTag(tag) THEN Fail(S, "EINVAL")
            ELSE reallocRetry(IF tag = tagUsedRelocated
                              THEN free(S, b2h(SubSeq(b8, 2, 8)), handle, FALSE)
                              ELSE S,
                              handle, b, m.c, m.rqAtoms,
                              n2atoms(IF tag = tagUsedLong THEN m2n(b8[2] * 256 + b8[3])
                                      ELSE IF tag = tagUsedRelocated THEN 0
                                      ELSE tag))
        made(m) ==
            IF m.err # "nil" THEN Fail(S, m.err)
            ELSE IF ~CanRead(S.f, 8, h2off(handle)) THEN Fail(S, "ILSEQ")
            ELSE resize(m, FBytes(S.f, 8, h2off(handle)), FByte(S.f, h2off(handle)))
    IN IF S.err # "nil" THEN S ELSE made(makeUsedBlock(b))

AllocatorRealloc(S, handle, b) ==
    IF handle <= 0 THEN Fail(S, "EINVAL") ELSE realloc(S, handle, b)

GetErr(e) ==
    [err |-> e, b |-> <<>>]

\* the tail of Get shared by multi atom short blocks (hdr = 1) and long
\* blocks (hdr = 3): read the tail tag, then the content
GetContent(F, off, dlen, hdr) ==
    LET tailOff == off + 16 * n2atoms(dlen) - 1
        content(tailTag) ==
            IF tailTag = tagNotCompressed
            THEN IF CanRead(F, dlen, off + hdr)
                 THEN [err |-> "nil", b |-> FReadAt(F, dlen, off + hdr)]
                 ELSE GetErr("ILSEQ")
            ELSE IF tailTag = tagCompressed THEN GetErr("snappy")
            ELSE GetErr("ILSEQ")
    IN IF ~CanRead(F, 1, tailOff) THEN GetErr("ILSEQ") ELSE content(FByte(F, tailOff))

RECURSIVE GetFrom(_, _, _)
GetFrom(F, handle, relocated) ==
    LET off == h2off(handle)
        block(first, tag) ==
            IF tag = 0 THEN [err |-> "nil", b |-> <<>>]
            ELSE IF tag = tagUsedLong
            THEN GetContent(F, off, m2n(first[2] * 256 + first[3]), 3)
            ELSE IF IsFreeTag(tag) THEN GetErr("ILSEQ")
            ELSE IF tag = tagUsedRelocated
            THEN IF relocated THEN GetErr("ILSEQ")
                 ELSE GetFrom(F, b2h(SubSeq(first, 2, 8)), TRUE)
            ELSE IF n2atoms(tag) = 1
            THEN IF first[16] = tagNotCompressed
                 THEN [err |-> "nil", b |-> RFromSeq(SubSeq(first, 2, tag + 1))]
                 ELSE IF first[16] = tagCompressed THEN GetErr("snappy")
                 ELSE GetErr("ILSEQ")
            ELSE GetContent(F, off, tag, 1)
    IN IF handle <= 0 THEN GetErr("EINVAL")
       ELSE IF ~CanRead(F, 16, off) THEN GetErr("ILSEQ")
       ELSE block(FBytes(F, 16, off), FByte(F, off))

AllocatorGet(F, handle) ==
    GetFrom(F, handle, FALSE)

\* ---- Verify
\* Errors are named by their ErrILSEQ type; "ErrOther" is a failed read.
verifyUnused(F, h, totalAtoms, tag, fast) ==
    LET off == h2off(h)
        none == [err |-> "nil", atoms |-> 0, prev |-> 0, next |-> 0]
        short(b) ==
            IF b[16] # tagFreeShort THEN [none EXCEPT !.err = "ErrShortFreeTailTag"]
            ELSE [none EXCEPT !.atoms = 1, !.prev = b2h(SubSeq(b, 2, 8)),
                              !.next = b2h(SubSeq(b, 9, 15))]
        tail(r, b) ==
            IF b[8] # tag THEN [r EXCEPT !.err = "ErrLongFreeTailTag"]
            ELSE IF b2h(SubSeq(b, 1, 7)) # r.atoms THEN [r EXCEPT !.err = "ErrVerifyTailSize"]
            ELSE r
        long(r) ==
            IF fast THEN r
            ELSE IF r.atoms < 2 THEN [r EXCEPT !.err = "ErrLongFreeBlkTooShort"]
            ELSE IF h + r.atoms - 1 > totalAtoms THEN [r EXCEPT !.err = "ErrLongFreeBlkTooLong"]
            ELSE IF r.prev > totalAtoms THEN [r EXCEPT !.err = "ErrLongFreePrevBeyondEOF"]
            ELSE IF r.next > totalAtoms THEN [r EXCEPT !.err = "ErrLongFreeNextBeyondEOF"]
            ELSE IF ~CanRead(F, 8, h2off(h + r.atoms) - 8) THEN [r EXCEPT !.err = "ErrOther"]
            ELSE tail(r, FBytes(F, 8, h2off(h + r.atoms) - 8))
        header(b) ==
            long([none EXCEPT !.atoms = b2h(SubSeq(b, 2, 8)), !.prev = b2h(SubSeq(b, 9, 15)),
                              !.next = b2h(SubSeq(b, 16, 22))])
    IN IF tag = tagFreeShort
       THEN IF ~CanRead(F, 16, off) THEN [none EXCEPT !.err = "ErrOther"]
            ELSE short(FBytes(F, 16, off))
       ELSE IF tag = tagFreeLong
       THEN IF ~CanRead(F, 22, off) THEN [none EXCEPT !.err = "ErrOther"]
            ELSE header(FBytes(F, 22, off))
       ELSE [none EXCEPT !.err = "panic"]

\* Compress is false: a block with the tail tag tagCompressed is never
\* written, and verifying one ends with the error of the decoder
verifyUsed(F, h, totalAtoms, tag, fast) ==
    LET none == [err |-> "nil", dlen |-> 0, atoms |-> 0, link |-> 0]
        checkLink(r, target) ==
            IF target = 0 THEN [none EXCEPT !.err = "ErrNullReloc"]
            ELSE IF target > totalAtoms THEN [none EXCEPT !.err = "ErrRelocBeyondEOF"]
            ELSE [r EXCEPT !.link = target]
        content(r, doff) ==
            IF ~CanRead(F, r.dlen, doff) THEN [none EXCEPT !.err = "ErrOther"]
            ELSE IF tag = tagUsedRelocated THEN checkLink(r, b2h(FBytes(F, 7, doff)))
            ELSE r
        tail(r, padding, doff, tailBuf) ==
            IF \E i \in 1..padding : tailBuf[i] # 0 THEN [none EXCEPT !.err = "ErrVerifyPadding"]
            ELSE IF tailBuf[padding + 1] = tagCompressed
            THEN IF tag = tagUsedRelocated THEN [none EXCEPT !.err = "ErrTailTag"]
                 ELSE [none EXCEPT !.err = "ErrDecompress"]
            ELSE IF tailBuf[padding + 1] = tagNotCompressed THEN content(r, doff)
            ELSE [none EXCEPT !.err = "ErrTailTag"]
        span(r, padding, doff) ==
            IF fast
            THEN IF tag # tagUsedRelocated THEN r
                 ELSE IF ~CanRead(F, 7, doff) THEN [none EXCEPT !.err = "ErrOther"]
                 ELSE [r EXCEPT !.dlen = 0, !.link = b2h(FBytes(F, 7, doff))]
            ELSE IF h + r.atoms - 1 > totalAtoms THEN [none EXCEPT !.err = "ErrVerifyUsedSpan"]
            ELSE IF ~CanRead(F, 1 + padding, h2off(h) + 16 * r.atoms - (1 + padding))
            THEN [none EXCEPT !.err = "ErrOther"]
            ELSE tail(r, padding, doff,
                      FBytes(F, 1 + padding, h2off(h) + 16 * r.atoms - (1 + padding)))
        long(dlen) ==
            span([none EXCEPT !.dlen = dlen, !.atoms = (dlen + 3) \div 16 + 1],
                 15 - ((dlen + 3) % 16), h2off(h) + 3)
    IN IF tag = tagUsedLong
       THEN IF ~CanRead(F, 2, h2off(h) + 1) THEN [none EXCEPT !.err = "ErrOther"]
            ELSE long(m2n(FByte(F, h2off(h) + 1) * 256 + FByte(F, h2off(h) + 2)))
       ELSE IF tag = tagUsedRelocated
       THEN span([none EXCEPT !.dlen = 7, !.atoms = 1], 7, h2off(h) + 1)
       ELSE IF IsFreeTag(tag) THEN [none EXCEPT !.err = "panic"]
       ELSE span([none EXCEPT !.dlen = tag, !.atoms = (tag + 1) \div 16 + 1],
                 15 - ((tag + 1) % 16), h2off(h) + 1)

\* Phase 1: the forward scan from handle h; bitmap is the set of handles
\* whose bit is on, tag the tag of the block before h
RECURSIVE VerifyScan(_, _, _, _, _, _)
VerifyScan(F, h, totalAtoms, tag, st, bitmap) ==
    LET fail(e) == [err |-> e, st |-> st, bitmap |-> bitmap, tag |-> tag]
        step(t, atoms, st2) ==
            IF h \in bitmap THEN fail("panic")
            ELSE VerifyScan(F, h + atoms, totalAtoms, t, st2, bitmap \cup {h})
        used(t, u) ==
            IF u.err # "nil" THEN fail(u.err)
            ELSE step(t, u.atoms,
                      [st EXCEPT !.AllocAtoms = @ + u.atoms, !.AllocBytes = @ + u.dlen,
                                 !.Relocations = @ + (IF t = tagUsedRelocated THEN 1 ELSE 0)])
        unused(t, u) ==
            IF u.err # "nil" THEN fail(u.err)
            ELSE step(t, u.atoms, [st EXCEPT !.FreeAtoms = @ + u.atoms])
        block(t) ==
            IF ~IsFreeTag(t) THEN used(t, verifyUsed(F, h, totalAtoms, t, FALSE))
            ELSE IF IsFreeTag(tag) THEN fail("ErrAdjacentFree")
            ELSE unused(t, verifyUnused(F, h, totalAtoms, t, FALSE))
    IN IF h > totalAtoms
       THEN IF totalAtoms # 0 /\ IsFreeTag(tag) THEN fail("ErrFreeTailBlock") ELSE fail("nil")
       ELSE IF ~CanRead(F, 1, h2off(h)) THEN fail("ErrOther")
       ELSE block(FByte(F, h2off(h)))

\* Phase 2: the bit of every used block is turned off, a relocated block
\* must not point to a free or to a relocated block
RECURSIVE VerifyUsedBlocks(_, _, _, _)
VerifyUsedBlocks(F, h, totalAtoms, bitmap) ==
    LET fail(e) == [err |-> e, bitmap |-> bitmap]
        turnoff(atoms) ==
            IF h \notin bitmap THEN fail("panic")
            ELSE VerifyUsedBlocks(F, h + atoms, totalAtoms, bitmap \ {h})
        used(t, u) ==
            IF u.err # "nil" THEN fail(u.err)
            ELSE IF t # tagUsedRelocated THEN turnoff(u.atoms)
            ELSE IF ~CanRead(F, 1, h2off(u.link)) THEN fail("ErrOther")
            ELSE IF IsFreeTag(FByte(F, h2off(u.link)))
                    \/ FByte(F, h2off(u.link)) = tagUsedRelocated
            THEN fail("ErrInvalidRelocTarget")
            ELSE turnoff(u.atoms)
        unused(u) ==
            IF u.err # "nil" THEN fail(u.err)
            ELSE VerifyUsedBlocks(F, h + u.atoms, totalAtoms, bitmap)
        block(t) ==
            IF IsFreeTag(t) THEN unused(verifyUnused(F, h, totalAtoms, t, TRUE))
            ELSE used(t, verifyUsed(F, h, totalAtoms, t, TRUE))
    IN IF h > totalAtoms THEN fail("nil")
       ELSE IF ~CanRead(F, 1, h2off(h)) THEN fail("ErrOther")
       ELSE block(FByte(F, h2off(h)))

\* Phase 3, one list: from next, whose predecessor is prev
RECURSIVE VerifyList(_, _, _, _, _, _)
VerifyList(F, prv, nxt, min, totalAtoms, bitmap) ==
    LET fail(e) == [err |-> e, bitmap |-> bitmap]
        linked(u) ==
            IF u.err # "nil" THEN fail(u.err)
            ELSE IF u.atoms < min THEN fail("ErrFLTSize")
            ELSE IF u.prev # prv THEN fail("ErrFreeChaining")
            ELSE VerifyList(F, nxt, u.next, min, totalAtoms, bitmap \ {nxt})
        block(t) ==
            IF ~IsFreeTag(t) THEN fail("panic")
            ELSE linked(verifyUnused(F, nxt, totalAtoms, t, TRUE))
    IN IF nxt = 0 THEN fail("nil")
       ELSE IF nxt \notin bitmap THEN fail("ErrFLT")
       ELSE IF ~CanRead(F, 1, h2off(nxt)) THEN fail("ErrOther")
       ELSE block(FByte(F, h2off(nxt)))

\* Phase 3: the lists of flt.Report(), in the order of the slots from slot i
RECURSIVE VerifyLists(_, _, _, _, _, _)
VerifyLists(F, heads, k, i, totalAtoms, bitmap) ==
    LET rest == {j \in DOMAIN heads : j >= i}
        first == CHOOSE j \in rest : \A m \in rest : j <= m
        listed(r) ==
            IF r.err # "nil" THEN r
            ELSE VerifyLists(F, heads, k, first + 1, totalAtoms, r.bitmap)
    IN IF rest = {} THEN [err |-> "nil", bitmap |-> bitmap]
       ELSE listed(VerifyList(F, 0, heads[first], MinSize(k, first), totalAtoms, bitmap))

\* Allocator.Verify with an empty bitmap and a log that stops at the first
\* error; stats are valid when err is "nil".  Phase 4 reports the first
\* lost free block.
Verify(F, heads, k) ==
    LET zero == [TotalAtoms |-> F.size \div 16, AllocBytes |-> 0, AllocAtoms |-> 0,
                 Relocations |-> 0, FreeAtoms |-> 0]
        result(e, st) == [err |-> e, stats |-> st]
        phase3(st, p) ==
            IF p.err # "nil" THEN result(p.err, zero)
            ELSE IF p.bitmap # {} THEN result("ErrLostFreeBlock", zero)
            ELSE result("nil", st)
        phase2(st, p) ==
            IF p.err # "nil" THEN result(p.err, zero)
            ELSE phase3(st, VerifyLists(F, heads, k, 1, F.size \div 16, p.bitmap))
        phase1(p) ==
            IF p.err # "nil" THEN result(p.err, zero)
            ELSE phase2(p.st, VerifyUsedBlocks(F, 1, F.size \div 16, p.bitmap))
    IN IF F.size % 16 # 0 THEN result("ErrFileSize", zero)
       ELSE phase1(VerifyScan(F, 1, F.size \div 16, 0, zero, {}))

\* ---------------------------------------------------------------- MemFiler, page map
\* The MemFiler once more, now with its page map: [size, m], m mapping the
\* index of every allocated page to its pgSize bytes in run length form.
zeroPage ==
    <<<<pgSize, 0>>>>

MemFilerNew ==
    [size |-> 0, m |-> <<>>]

\* f.m[pgI] = pg
MemFilerSet(m, pgI, pg) ==
    [p \in (DOMAIN m) \cup {pgI} |-> IF p = pgI THEN pg ELSE m[p]]

\* delete(f.m, pg) for the pages of the set pgs
MemFilerDelete(m, pgs) ==
    [p \in (DOMAIN m) \ pgs |-> m[p]]

\* pg := f.m[pgI]; if pg == nil { pg = &zeroPage }
MemFilerPage(m, pgI) ==
    IF pgI \in DOMAIN m THEN m[pgI] ELSE zeroPage

\* WriteAt allocating the page of every write, zero or not
MemFilerIsZeroPageWriteNever(b, pgO) ==
    FALSE

\* pgO == 0 && rem >= pgSize && bytes.Equal(b[:pgSize], zeroPage[:])
MemFilerIsZeroPageWrite(b, pgO) ==
    pgO = 0 /\ RLen(b) >= pgSize /\ RTake(b, pgSize) = zeroPage

RECURSIVE MemFilerWriteLoop(_, _, _, _)
\* for rem != 0 { ... } of WriteAt
MemFilerWriteLoop(m, pgI, pgO, b) ==
    IF RLen(b) = 0 THEN m
    ELSE IF MemFilerIsZeroPageWrite(b, pgO)
    THEN MemFilerWriteLoop(MemFilerDelete(m, {pgI}), pgI + 1, 0, RDrop(b, pgSize))
    ELSE LET nc == Min(RLen(b), pgSize - pgO)
             copied(pg) == RCat(RCat(RTake(pg, pgO), RTake(b, nc)), RDrop(pg, pgO + nc))
         IN  MemFilerWriteLoop(MemFilerSet(m, pgI, copied(MemFilerPage(m, pgI))),
                               pgI + 1, 0, RDrop(b, nc))

MemFilerWriteAt(mf, b, off) ==
    [size |-> Max(mf.size, off + RLen(b)),
     m |-> MemFilerWriteLoop(mf.m, off \div pgSize, off % pgSize, b)]

RECURSIVE MemFilerReadLoop(_, _, _, _)
\* for rem != 0 && avail > 0 { ... } of ReadAt
MemFilerReadLoop(m, pgI, pgO, rem) ==
    IF rem <= 0 THEN <<>>
    ELSE LET nc == Min(Min(rem, pgSize), pgSize - pgO)
         IN  RCat(RTake(RDrop(MemFilerPage(m, pgI), pgO), nc),
                  MemFilerReadLoop(m, pgI + 1, 0, rem - nc))

\* the bytes ReadAt delivers for len(b) = n
MemFilerReadAt(mf, n, off) ==
    LET avail == mf.size - off
        rem == IF n >= avail THEN avail ELSE n
    IN  IF avail > 0 THEN MemFilerReadLoop(mf.m, off \div pgSize, off % pgSize, rem) ELSE <<>>

MemFilerBytes(mf) ==
    MemFilerReadAt(mf, mf.size, 0)

RECURSIVE RNonZero(_, _)
\* the offsets of the non zero bytes of the runs r, r starting at offset pos
RNonZero(r, pos) ==
    IF r = <<>> THEN {}
    ELSE (IF r[1][2] # 0 THEN pos..(pos + r[1][1] - 1) ELSE {})
            \cup RNonZero(Tail(r), pos + r[1][1])

\* first := size >> pgBits; if size&pgMask != 0 { first++ }
MemFilerTruncatePages(size) ==
    (size \div pgSize) + (IF size % pgSize # 0 THEN 1 ELSE 0)

\* [err, mf]
MemFilerTruncate(mf, size) ==
    IF size < 0 THEN [err |-> "EINVAL", mf |-> mf]
    ELSE IF size = 0 THEN [err |-> "nil", mf |-> MemFilerNew]
    ELSE LET first == MemFilerTruncatePages(size)
             last == MemFilerTruncatePages(mf.size)
         IN  [err |-> "nil",
              mf |-> [size |-> size,
                      m |-> MemFilerDelete(mf.m, {p \in DOMAIN mf.m : first <= p /\ p < last})]]

\* [err, mf]
MemFilerPunchHole(mf, off, size) ==
    IF off < 0 THEN [err |-> "EINVAL", mf |-> mf]
    ELSE IF size < 0 \/ off + size > mf.size THEN [err |-> "EINVAL", mf |-> mf]
    ELSE LET first == (off \div pgSize) + (IF off % pgSize # 0 THEN 1 ELSE 0)
             off1 == off + size - 1
             last0 == (off1 \div pgSize) - (IF off1 % pgSize # 0 THEN 1 ELSE 0)
             limit == mf.size \div pgSize
             last == IF last0 > limit THEN limit ELSE last0
         IN  [err |-> "nil",
              mf |-> [mf EXCEPT !.m = MemFilerDelete(mf.m, {p \in DOMAIN mf.m : first <= p /\ p <= last})]]

\* ---------------------------------------------------------------- initial values
NoCut ==
    [at |-> -1, wr |-> {}]

NoMop ==
    [op |-> "New", err |-> "nil", off |-> 0, n |-> 0, buf |-> <<>>, b |-> <<>>,
     seq |-> 0, had |-> {}]

NoPunch ==
    [bytes |-> {}, at |-> -1]

NoAtx ==
    [state |-> "none", f |-> FNew, fltf |-> FNew, ref |-> <<>>, seq |-> 0,
     one |-> FALSE, b |-> <<>>, h |-> 0]

\* the non-transactional Filers: all three keep the counter the same way
PlainFilers ==
    {"MemFiler", "OSFiler", "SimpleFileFiler"}

NoFop ==
    [op |-> "none", pend |-> 0, err |-> "nil"]

NoDamage ==
    [what |-> "none", h |-> 0, arg |-> 0]

\* the goroutines: two callers of DB methods and the victor of one removed array
Callers ==
    {"c1", "c2"}

Threads ==
    Callers \cup {"victor"}

NoCall ==
    [m |-> "none", at |-> "idle", locks |-> 0, unlocks |-> 0, calls |-> 0]

InitDB ==
    /\ bkl = "free"
    /\ thr = [t \in Threads |-> NoCall]
    /\ dbst = [closed |-> FALSE, stop |-> "nil", keys |-> MaxKeys, finished |-> FALSE]

InitAux ==
    /\ damage = NoDamage
    /\ cm = MemFilerNew
    /\ InitDB
    /\ filer = "MemFiler"
    /\ nest = 0
    /\ pending = 0
    /\ fop = NoFop

InitExt ==
    /\ wlog = <<>>
    /\ punched = NoPunch
    /\ mem = MemFilerNew
    /\ inner = 0
    /\ mop = NoMop
    /\ cut = NoCut
    /\ atx = NoAtx
    /\ InitAux

BwalNil ==
    "nil"

NoView ==
    [size |-> 0, b |-> <<>>, plain |-> TRUE]

InitRB ==
    /\ f \in InitFiles
    /\ stack = <<>>
    /\ tlevel = 0
    /\ lastOp = "New"
    /\ lastErr = "nil"
    /\ lastLevel = 0
    /\ lastRead = <<>>
    /\ fPre = f
    /\ wcalls = 0
    /\ ckpts = 0
    /\ g = <<f>>
    /\ snap = <<>>
    /\ lastSnap = <<>>
    /\ plain = TRUE
    /\ depth = 0
    /\ nops = 0

InitStorage ==
    /\ InitRB
    /\ wal = <<>>
    /\ walPos = 0
    /\ walSynced = TRUE
    /\ bwal = BwalNil
    /\ data = <<>>
    /\ pc = "idle"
    /\ sz = 0
    /\ todo = {}
    /\ dbSynced = TRUE
    /\ txView = NoView
    /\ crashAt = "none"
    /\ crashWal = <<>>
    /\ crashF = NewMemFiler
    /\ openErr = "nil"

FLTKinds ==
    {FLTPowersOf2, FLTFib, FLTFull}

InitAllocator(kinds) ==
    /\ kind \in kinds
    /\ af = NewAllocator(kind).f
    /\ flt = NewAllocator(kind).heads
    /\ fltf = NewAllocator(kind).fltf
    /\ ref = <<>>
    /\ aop = [op |-> "New", h |-> 0, err |-> "nil", b |-> <<>>, seq |-> 0,
             valid |-> FALSE, was |-> 0, old |-> <<>>]

Init ==
    /\ InitStorage
    /\ InitAllocator({FLTPowersOf2})
    /\ InitExt

Next ==
    \/ BeginUpdate
    \/ WriteAt
    \/ Truncate
    \/ PunchHole
    \/ ReadAt
    \/ Rollback
    \/ EndUpdateInner
    \/ EndUpdateOuter
    \/ EndUpdateEPERM

Spec ==
    Init /\ [][Next]_vars

\* ---------------------------------------------------------------- ACIDFiler0
\* The WAL file is a sequence of cells, one per packet (every packet is a
\* multiple of 16 bytes); a cell skipped by a write beyond the end of the
\* file is a hole that reads as zeros.  A packet is the tuple of scalars
\* handed to EncodeScalars.
wpt00Header ==
    0

wpt00WriteData ==
    1

wpt00Checkpoint ==
    2

walTypeACIDFiler0 ==
    0

ZeroCell ==
    <<>>

PktHeader ==
    <<wpt00Header, walTypeACIDFiler0, "">>

PktWrite(b, off) ==
    <<wpt00WriteData, b, off>>

PktCheckpoint(size) ==
    <<wpt00Checkpoint, size>>

\* os.File.Write of cells at the descriptor's position
FileWrite(file, pos, cells) ==
    [i \in 1..Max(Len(file), pos + Len(cells)) |->
        IF i > pos /\ i <= pos + Len(cells) THEN cells[i - pos]
        ELSE IF i <= Len(file) THEN file[i] ELSE ZeroCell]

\* the writer's state: [wal, walPos, walSynced, bwal, data]
BwalFlush(w) ==
    IF Len(w.bwal) = 0 THEN w
    ELSE [w EXCEPT !.wal = FileWrite(w.wal, w.walPos, w.bwal),
                   !.walPos = w.walPos + Len(w.bwal),
                   !.walSynced = FALSE,
                   !.bwal = <<>>]

\* acidWriter0.writePacket: bufio.Writer flushes to the file when its buffer is full
writePacket(w, pkt) ==
    LET w1 == IF Len(w.bwal) >= BufCap THEN BwalFlush(w) ELSE w
    IN  [w1 EXCEPT !.bwal = Append(w1.bwal, pkt)]

DataSet(d, off, b) ==
    [k \in (DOMAIN d) \cup {off} |-> IF k = off THEN b ELSE d[k]]

\* acidWriter0.WriteAt
AcidWriteAt(w, b, off) ==
    LET w1 == IF w.bwal = BwalNil
              THEN writePacket([w EXCEPT !.data = <<>>, !.bwal = <<>>], PktHeader)
              ELSE w
        w2 == writePacket(w1, PktWrite(b, off))
    IN  [w2 EXCEPT !.data = DataSet(w2.data, off, b)]

RECURSIVE AcidWriteAll(_, _, _)
AcidWriteAll(w, ws, i) ==
    IF i > Len(ws) THEN w ELSE AcidWriteAll(AcidWriteAt(w, ws[i].b, ws[i].off), ws, i + 1)

\* the size the checkpoint callback reads: sz, err := r.Size(), called by
\* EndUpdate after r.tlevel-- and r.bitFiler = nil
CheckpointSize(st, mf, tl) ==
    RSize(st, mf, tl)

\* the checkpoint callback truncating the WAL before db.Sync()
CheckpointNextWalFirst(p) ==
    CASE p = "ckpt" -> "flush"
      [] p = "flush" -> "sync"
      [] p = "sync" -> "phase2"
      [] p = "phase2" -> "dbtrunc"
      [] p = "dbtrunc" -> "waltrunc"
      [] p = "waltrunc" -> "dbsync"
      [] p = "dbsync" -> "walsync"
      [] p = "walsync" -> "idle"

\* the order of the statements of the checkpoint callback
CheckpointNext(p) ==
    CASE p = "ckpt" -> "flush"
      [] p = "flush" -> "sync"
      [] p = "sync" -> "phase2"
      [] p = "phase2" -> "dbtrunc"
      [] p = "dbtrunc" -> "dbsync"
      [] p = "dbsync" -> "waltrunc"
      [] p = "waltrunc" -> "walsync"
      [] p = "walsync" -> "idle"

CommitPCs ==
    {"ckpt", "flush", "sync", "phase2", "dbtrunc", "dbsync", "waltrunc", "walsync"}

MinOf(S) ==
    CHOOSE x \in S : \A y \in S : x <= y

\* EndUpdate at the outermost level of an ACIDFiler0: r.tlevel--, then
\* dumpDirty(acidWriter), then the checkpoint callback is entered
AcidEndUpdate ==
    /\ Live /\ pc = "idle" /\ tlevel = 1
    /\ \E order \in MapOrders(Top(stack).m) :
        LET ws == dumpDirty(Top(stack), order)
            w == AcidWriteAll([wal |-> wal, walPos |-> walPos, walSynced |-> walSynced,
                               bwal |-> bwal, data |-> data], ws, 1)
        IN  /\ wal' = w.wal
            /\ walPos' = w.walPos
            /\ walSynced' = w.walSynced
            /\ bwal' = w.bwal
            /\ data' = w.data
            /\ wcalls' = wcalls + Len(ws)
    /\ txView' = [size |-> Top(stack).size, b |-> Bytes(Top(g)), plain |-> plain]
    /\ stack' = <<>>
    /\ tlevel' = 0
    /\ ckpts' = ckpts + 1
    /\ g' = <<Top(g)>>
    /\ snap' = <<>>
    /\ pc' = "ckpt"
    /\ Done("EndUpdate", "pending")
    /\ UNCHANGED <<f, lastRead, fPre, lastSnap, plain, depth, sz, todo, dbSynced, crashAt, crashWal, crashF, openErr>>
    /\ UNCHANGED <<allocVars, extVars>>

\* sz, err := r.Size(); writePacket(wpt00Checkpoint, sz): f.bwal.Write on a nil
\* *bufio.Writer panics
CkptPacket ==
    /\ pc = "ckpt" /\ lastErr # "panic"
    /\ IF bwal = BwalNil
       THEN /\ lastErr' = "panic"
            /\ UNCHANGED <<wal, walPos, walSynced, bwal, sz, pc>>
       ELSE LET w == writePacket([wal |-> wal, walPos |-> walPos, walSynced |-> walSynced,
                                  bwal |-> bwal, data |-> data],
                                 PktCheckpoint(CheckpointSize(stack, f, tlevel)))
            IN  /\ wal' = w.wal
                /\ walPos' = w.walPos
                /\ walSynced' = w.walSynced
                /\ bwal' = w.bwal
                /\ sz' = CheckpointSize(stack, f, tlevel)
                /\ pc' = CheckpointNext("ckpt")
                /\ UNCHANGED lastErr
    /\ UNCHANGED <<f, stack, tlevel, lastOp, lastLevel, lastRead, histVars, data, todo, dbSynced, txView, crashAt, crashWal, crashF, openErr>>
    /\ UNCHANGED <<allocVars, extVars>>

\* r.bwal.Flush(); r.bwal = nil
CkptFlush ==
    /\ pc = "flush"
    /\ LET w == BwalFlush([wal |-> wal, walPos |-> walPos, walSynced |-> walSynced,
                           bwal |-> bwal, data |-> data])
       IN  /\ wal' = w.wal
           /\ walPos' = w.walPos
           /\ walSynced' = w.walSynced
    /\ bwal' = BwalNil
    /\ pc' = CheckpointNext("flush")
    /\ UNCHANGED <<rbVars, histVars, data, sz, todo, dbSynced, txView, crashAt, crashWal, crashF, openErr>>
    /\ UNCHANGED <<allocVars, extVars>>

\* r.wal.Sync(): phase 1 commit complete; enum := r.data.SeekFirst()
CkptWalSync ==
    /\ pc = "sync"
    /\ walSynced' = TRUE
    /\ todo' = DOMAIN data
    /\ pc' = CheckpointNext("sync")
    /\ UNCHANGED <<rbVars, histVars, wal, walPos, bwal, data, sz, dbSynced, txView, crashAt, crashWal, crashF, openErr>>
    /\ UNCHANGED <<allocVars, extVars>>

\* one db.WriteAt(v, k) of the loop over r.data, in ascending key order
CkptDbWrite ==
    /\ pc = "phase2" /\ todo # {}
    /\ LET k == MinOf(todo)
       IN  /\ f' = MemWriteAt(f, data[k], k)
           /\ todo' = todo \ {k}
    /\ dbSynced' = FALSE
    /\ UNCHANGED <<stack, tlevel, lastOp, lastErr, lastLevel, lastRead, histVars, wal, walPos, walSynced, bwal, data, pc, sz, txView, crashAt, crashWal, crashF, openErr>>
    /\ UNCHANGED <<allocVars, extVars>>

\* the loop ends at io.EOF
CkptDbWritten ==
    /\ pc = "phase2" /\ todo = {}
    /\ pc' = CheckpointNext("phase2")
    /\ UNCHANGED <<rbVars, histVars, wal, walPos, walSynced, bwal, data, sz, todo, dbSynced, txView, crashAt, crashWal, crashF, openErr>>
    /\ UNCHANGED <<allocVars, extVars>>

\* db.Truncate(sz)
CkptDbTruncate ==
    /\ pc = "dbtrunc"
    /\ f' = MemTruncate(f, sz)
    /\ dbSynced' = FALSE
    /\ pc' = CheckpointNext("dbtrunc")
    /\ UNCHANGED <<stack, tlevel, lastOp, lastErr, lastLevel, lastRead, histVars, wal, walPos, walSynced, bwal, data, sz, todo, txView, crashAt, crashWal, crashF, openErr>>
    /\ UNCHANGED <<allocVars, extVars>>

\* db.Sync(): phase 2 commit complete
CkptDbSync ==
    /\ pc = "dbsync"
    /\ dbSynced' = TRUE
    /\ pc' = CheckpointNext("dbsync")
    /\ UNCHANGED <<rbVars, histVars, wal, walPos, walSynced, bwal, data, sz, todo, txView, crashAt, crashWal, crashF, openErr>>
    /\ UNCHANGED <<allocVars, extVars>>

\* r.wal.Truncate(0); r.wal.Seek(0, 0)
CkptWalTruncate ==
    /\ pc = "waltrunc"
    /\ wal' = <<>>
    /\ walPos' = 0
    /\ walSynced' = FALSE
    /\ pc' = CheckpointNext("waltrunc")
    /\ UNCHANGED <<rbVars, histVars, bwal, data, sz, todo, dbSynced, txView, crashAt, crashWal, crashF, openErr>>
    /\ UNCHANGED <<allocVars, extVars>>

\* return r.wal.Sync(): EndUpdate returns
CkptWalSyncEnd ==
    /\ pc = "walsync"
    /\ walSynced' = TRUE
    /\ pc' = CheckpointNext("walsync")
    /\ lastErr' = "nil"
    /\ UNCHANGED <<f, stack, tlevel, lastOp, lastLevel, lastRead, histVars, wal, walPos, bwal, data, sz, todo, dbSynced, txView, crashAt, crashWal, crashF, openErr>>
    /\ UNCHANGED <<allocVars, extVars>>

\* the process dies: memory is lost, the files keep what was written to them
Crash ==
    /\ Live /\ pc \in CommitPCs \cup {"idle"}
    /\ crashAt' = pc
    /\ crashWal' = wal
    /\ crashF' = f
    /\ pc' = "crashed"
    /\ stack' = <<>>
    /\ tlevel' = 0
    /\ bwal' = BwalNil
    /\ data' = <<>>
    /\ todo' = {}
    /\ Done("Crash", "nil")
    /\ UNCHANGED <<f, lastRead, fPre, wcalls, ckpts, g, snap, lastSnap, plain, depth, wal, walPos, walSynced, sz, dbSynced, txView, openErr>>
    /\ UNCHANGED <<allocVars, extVars>>

RECURSIVE ReadPackets(_, _, _)
\* the packet loop of recoverDb from packet i on, tr being the map read so far:
\* [err, tr, sz]
ReadPackets(file, i, tr) ==
    IF i > Len(file) THEN [err |-> "EOF", tr |-> tr, sz |-> 0]
    ELSE LET items == file[i]
         IN  IF Len(items) < 2 THEN [err |-> "ILSEQ", tr |-> tr, sz |-> 0]
             ELSE IF items[1] = wpt00WriteData
             THEN (IF Len(items) # 3 THEN [err |-> "ILSEQ", tr |-> tr, sz |-> 0]
                   ELSE ReadPackets(file, i + 1, DataSet(tr, items[3], items[2])))
             ELSE IF items[1] = wpt00Checkpoint
             THEN (IF i < Len(file) \/ Len(items) # 2 THEN [err |-> "ILSEQ", tr |-> tr, sz |-> 0]
                   ELSE [err |-> "nil", tr |-> tr, sz |-> items[2]])
             ELSE [err |-> "ILSEQ", tr |-> tr, sz |-> 0]

\* recoverDb up to the checkpoint packet: the header, then the packet loop
ReadWal(file) ==
    LET items == file[1]
    IN  IF Len(items) # 3 \/ items[1] # wpt00Header \/ items[2] # walTypeACIDFiler0
        THEN [err |-> "ILSEQ", tr |-> <<>>, sz |-> 0]
        ELSE ReadPackets(file, 2, <<>>)

\* the first bytes of a packet, cut short of a multiple of 16 bytes
TornCell ==
    <<-1>>

\* fi.Size()%16 != 0
WalTorn(file) ==
    Len(file) # 0 /\ file[Len(file)] = TornCell

\* the order of the statements of recoverDb after the checkpoint packet was read
RecoverNext(p) ==
    CASE p = "rphase2" -> "rdbtrunc"
      [] p = "rdbtrunc" -> "rdbsync"
      [] p = "rdbsync" -> "rwaltrunc"
      [] p = "rwaltrunc" -> "rwalsync"
      [] p = "rwalsync" -> "idle"

RecoverPCs ==
    {"rphase2", "rdbtrunc", "rdbsync", "rwaltrunc", "rwalsync"}

NewRollbackFilerState ==
    /\ stack' = <<>>
    /\ tlevel' = 0
    /\ lastOp' = "Open"
    /\ lastLevel' = 0
    /\ lastRead' = <<>>
    /\ fPre' = f'
    /\ wcalls' = 0
    /\ ckpts' = 0
    /\ g' = <<f'>>
    /\ snap' = <<>>
    /\ lastSnap' = <<>>
    /\ plain' = TRUE
    /\ depth' = 0

\* NewACIDFiler with a zero sized WAL: no recovery
OpenClean ==
    /\ pc = "crashed" /\ Len(wal) = 0
    /\ pc' = "idle"
    /\ openErr' = "nil"
    /\ lastErr' = "nil"
    /\ walPos' = 0
    /\ f' = f
    /\ NewRollbackFilerState
    /\ UNCHANGED <<nops, wal, walSynced, bwal, data, sz, todo, dbSynced, txView, crashAt, crashWal, crashF>>
    /\ UNCHANGED <<allocVars, extVars>>

\* NewACIDFiler with a non empty WAL: recoverDb reads the WAL through a
\* bufio.Reader, which leaves the descriptor at the end of the file
OpenRecover ==
    /\ pc = "crashed" /\ Len(wal) # 0 /\ ~WalTorn(wal)
    /\ LET r == ReadWal(wal)
       IN  /\ openErr' = r.err
           /\ lastErr' = r.err
           /\ data' = r.tr
           /\ todo' = IF r.err = "nil" THEN DOMAIN r.tr ELSE {}
           /\ sz' = r.sz
           /\ pc' = IF r.err = "nil" THEN "rphase2" ELSE "failed"
    /\ walPos' = Len(wal)
    /\ lastOp' = "Open"
    /\ UNCHANGED <<f, stack, tlevel, lastLevel, lastRead, histVars, wal, walSynced, bwal, dbSynced, txView, crashAt, crashWal, crashF>>
    /\ UNCHANGED <<allocVars, extVars>>

\* the loop of recoverDb appending v to db
RecDbWriteAppend ==
    /\ pc = "rphase2" /\ todo # {}
    /\ LET k == MinOf(todo)
       IN  /\ f' = MemWriteAt(f, data[k], f.size)
           /\ todo' = todo \ {k}
    /\ dbSynced' = FALSE
    /\ UNCHANGED <<stack, tlevel, lastOp, lastErr, lastLevel, lastRead, histVars, wal, walPos, walSynced, bwal, data, pc, sz, txView, crashAt, crashWal, crashF, openErr>>
    /\ UNCHANGED <<allocVars, extVars>>

\* one db.WriteAt(v, k) of the loop over tr, in ascending key order
RecDbWrite ==
    /\ pc = "rphase2" /\ todo # {}
    /\ LET k == MinOf(todo)
       IN  /\ f' = MemWriteAt(f, data[k], k)
           /\ todo' = todo \ {k}
    /\ dbSynced' = FALSE
    /\ UNCHANGED <<stack, tlevel, lastOp, lastErr, lastLevel, lastRead, histVars, wal, walPos, walSynced, bwal, data, pc, sz, txView, crashAt, crashWal, crashF, openErr>>
    /\ UNCHANGED <<allocVars, extVars>>

RecDbWritten ==
    /\ pc = "rphase2" /\ todo = {}
    /\ pc' = RecoverNext("rphase2")
    /\ UNCHANGED <<rbVars, histVars, wal, walPos, walSynced, bwal, data, sz, todo, dbSynced, txView, crashAt, crashWal, crashF, openErr>>
    /\ UNCHANGED <<allocVars, extVars>>

\* db.Truncate(sz)
RecDbTruncate ==
    /\ pc = "rdbtrunc"
    /\ f' = MemTruncate(f, sz)
    /\ dbSynced' = FALSE
    /\ pc' = RecoverNext("rdbtrunc")
    /\ UNCHANGED <<stack, tlevel, lastOp, lastErr, lastLevel, lastRead, histVars, wal, walPos, walSynced, bwal, data, sz, todo, txView, crashAt, crashWal, crashF, openErr>>
    /\ UNCHANGED <<allocVars, extVars>>

\* db.Sync(): recovery complete
RecDbSync ==
    /\ pc = "rdbsync"
    /\ dbSynced' = TRUE
    /\ pc' = RecoverNext("rdbsync")
    /\ UNCHANGED <<rbVars, histVars, wal, walPos, walSynced, bwal, data, sz, todo, txView, crashAt, crashWal, crashF, openErr>>
    /\ UNCHANGED <<allocVars, extVars>>

\* a.wal.Truncate(0): the descriptor's position stays where it is
RecWalTruncate ==
    /\ pc = "rwaltrunc"
    /\ wal' = <<>>
    /\ walSynced' = FALSE
    /\ pc' = RecoverNext("rwaltrunc")
    /\ UNCHANGED <<rbVars, histVars, walPos, bwal, data, sz, todo, dbSynced, txView, crashAt, crashWal, crashF, openErr>>
    /\ UNCHANGED <<allocVars, extVars>>

\* return a.wal.Sync(); NewACIDFiler then builds the RollbackFiler and returns;
\* r.data is the empty tree NewACIDFiler made (recoverDb used its own tr)
RecWalSync ==
    /\ pc = "rwalsync"
    /\ walSynced' = TRUE
    /\ pc' = RecoverNext("rwalsync")
    /\ data' = <<>>
    /\ lastErr' = "nil"
    /\ f' = f
    /\ NewRollbackFilerState
    /\ UNCHANGED <<nops, wal, walPos, bwal, sz, todo, dbSynced, txView, crashAt, crashWal, crashF, openErr>>
    /\ UNCHANGED <<allocVars, extVars>>

NextACID ==
    \/ BeginUpdate
    \/ WriteAt
    \/ Truncate
    \/ EndUpdateInner
    \/ AcidEndUpdate
    \/ CkptPacket
    \/ CkptFlush
    \/ CkptWalSync
    \/ CkptDbWrite
    \/ CkptDbWritten
    \/ CkptDbTruncate
    \/ CkptDbSync
    \/ CkptWalTruncate
    \/ CkptWalSyncEnd
    \/ Crash
    \/ OpenClean
    \/ OpenRecover
    \/ RecDbWrite
    \/ RecDbWritten
    \/ RecDbTruncate
    \/ RecDbSync
    \/ RecWalTruncate
    \/ RecWalSync

SpecACID ==
    Init /\ [][NextACID]_vars

\* ---------------------------------------------------------------- Allocator: operations
\* The client of TestAllocatorRnd: it allocates, frees and resizes blocks
\* and keeps in ref what every valid handle must hold.
\* n bytes: v, then v+1 ..., then v-1
Content(n, v) ==
    RCat(RCat(RCons(<<Min(n, 1), v>>, <<>>), RCons(<<n - 2, v + 1>>, <<>>)),
         RCons(<<IF n >= 2 THEN 1 ELSE 0, v - 1>>, <<>>))

AllocContents ==
    {Content(0, 1), Content(14, 254), Content(15, 1), Content(31, 254), Content(252, 254),
     Content(maxRq, 1)}

ReallocContents ==
    {Content(0, 1), Content(31, 254), Content(252, 1)}

AllocState ==
    [f |-> af, heads |-> flt, fltf |-> fltf, kind |-> kind, err |-> "nil", h |-> 0]

AFailed ==
    aop.op # "Get" /\ aop.err # "nil"

\* Get changes nothing: what can follow a Get is what can follow the state it
\* was called in, and the run is continued from there.
ALive ==
    ~AFailed /\ aop.op # "Get" /\ aop.seq < MaxAOps

\* a successful call on handle h is a later call on another handle for all others
Others(r, h) ==
    [k \in DOMAIN r |-> IF k = h THEN r[k] ELSE [r[k] EXCEPT !.others = TRUE]]

\* valid tells whether h was a valid handle before the call, was is the tag
\* it had and old what it held
AllocDone(S, op, h, was, old) ==
    /\ af' = S.f
    /\ flt' = S.heads
    /\ fltf' = S.fltf
    /\ aop' = [op |-> op, h |-> h, err |-> S.err, b |-> <<>>, seq |-> aop.seq + 1,
               valid |-> h \in DOMAIN ref, was |-> was, old |-> old]
    /\ UNCHANGED <<kind, rbVars, histVars, acidVars, extVars>>

Alloc ==
    /\ ALive
    /\ Cardinality(DOMAIN ref) < MaxLive
    /\ \E b \in AllocContents :
        LET done(S) ==
                /\ AllocDone(S, "Alloc", S.h, 0, <<>>)
                /\ ref' = IF S.err # "nil" THEN ref
                          ELSE IF S.h \in DOMAIN ref THEN Others(ref, S.h)
                          ELSE (S.h :> [b |-> b, by |-> "Alloc", others |-> FALSE])
                                   @@ Others(ref, S.h)
        IN done(AllocatorAlloc(AllocState, b))

Free ==
    /\ ALive
    /\ \E h \in DOMAIN ref :
        LET done(S) ==
                /\ AllocDone(S, "Free", h, FByte(af, h2off(h)), ref[h].b)
                /\ ref' = IF S.err # "nil" THEN ref
                          ELSE [k \in DOMAIN ref \ {h} |-> Others(ref, h)[k]]
        IN done(AllocatorFree(AllocState, h))

Realloc ==
    /\ ALive
    /\ \E h \in DOMAIN ref, b \in ReallocContents :
        LET done(S) ==
                /\ AllocDone(S, "Realloc", h, FByte(af, h2off(h)), ref[h].b)
                /\ ref' = IF S.err # "nil" THEN ref
                          ELSE [Others(ref, h) EXCEPT
                                    ![h] = [b |-> b, by |-> "Realloc", others |-> FALSE]]
        IN done(AllocatorRealloc(AllocState, h, b))

Get ==
    /\ ALive
    /\ \E h \in DOMAIN ref :
        LET done(r) ==
                aop' = [op |-> "Get", h |-> h, err |-> r.err, b |-> r.b, seq |-> aop.seq + 1,
                        valid |-> TRUE, was |-> FByte(af, h2off(h)), old |-> ref[h].b]
        IN /\ done(AllocatorGet(af, h))
           /\ UNCHANGED <<af, flt, fltf, kind, ref, rbVars, histVars, acidVars, extVars>>

InitAlloc ==
    /\ InitStorage
    /\ f = NewMemFiler
    /\ InitAllocator(FLTKinds)
    /\ InitExt

NextAlloc ==
    \/ Alloc
    \/ Free
    \/ Realloc
    \/ Get

SpecAlloc ==
    InitAlloc /\ [][NextAlloc]_vars

\* ---------------------------------------------------------------- EndUpdate with a failing writerAt
\* What a writerAt.WriteAt call can return under the contract of io.WriterAt
\* (an error whenever n < len(b)): n = len(b) and no error; an error and
\* nothing written; an error after a part of b was written; an error with
\* n = len(b), as acidWriter0.WriteAt returns when f.data.Set fails
\* (return len(b), f.data.Set(key[:], b)).
WriteResults ==
    {"ok", "error", "short", "errorFull"}

\* the n and err of a call with result res
WriteN(b, res) ==
    CASE res \in {"ok", "errorFull"} -> Len(b)
      [] res = "short" -> Len(b) - 1
      [] OTHER -> 0

WriteErr(res) ==
    IF res = "ok" THEN "nil" ELSE "EIO"

\* the calls dumpDirty makes when call number at returns res: after
\* n, err := w.WriteAt(...) it returns err if n != i-first and goes on otherwise
DumpCalls(ws, at, res) ==
    LET stop == at # 0 /\ WriteN(ws[at].b, res) # Len(ws[at].b)
        made == IF stop THEN at ELSE Len(ws)
    IN  [i \in 1..made |->
            [b |-> ws[i].b, off |-> ws[i].off,
             n |-> IF i = at THEN WriteN(ws[i].b, res) ELSE Len(ws[i].b),
             err |-> IF i = at THEN WriteErr(res) ELSE "nil"]]

\* what dumpDirty returns: the err of the call it stopped at, else nil
DumpErr(calls) ==
    IF calls # <<>> /\ calls[Len(calls)].n # Len(calls[Len(calls)].b)
    THEN calls[Len(calls)].err
    ELSE "nil"

RECURSIVE WriteCalls(_, _, _)
\* the wrapped Filer after the calls: a call leaves its first n bytes, a call
\* that wrote nothing leaves the Filer as it was
WriteCalls(mf, calls, i) ==
    IF i > Len(calls) THEN mf
    ELSE IF calls[i].n = 0 THEN WriteCalls(mf, calls, i + 1)
    ELSE WriteCalls(MemWriteAt(mf, SubSeq(calls[i].b, 1, calls[i].n), calls[i].off), calls, i + 1)

RECURSIVE DataOfCalls(_, _, _)
\* ACIDFiler0.data after the calls: f.data.Set(key(off), b) per call
DataOfCalls(d, calls, i) ==
    IF i > Len(calls) THEN d
    ELSE DataOfCalls(DataSet(d, calls[i].off, calls[i].b), calls, i + 1)

RECURSIVE ApplyData(_, _, _)
\* the loop of phase 2 and of recoverDb: db.WriteAt(v, k) from SeekFirst on,
\* in ascending key order
ApplyData(mf, d, keys) ==
    IF keys = {} THEN mf
    ELSE ApplyData(MemWriteAt(mf, d[MinOf(keys)], MinOf(keys)), d, keys \ {MinOf(keys)})

FarBufs ==
    {<<2, 3, 4, 5>>}

FarOffs ==
    {6, 13, 32}

WriteAtFar ==
    WriteAtOf(FarBufs, FarOffs)

\* EndUpdate at the outermost level with writerAt = f, whose calls may fail,
\* and the checkpoint of TestRollbackFiler1
EndUpdateFlush ==
    /\ Live /\ pc = "idle" /\ tlevel = 1
    /\ \E order \in MapOrders(Top(stack).m), res \in WriteResults :
        \E at \in 0..Len(dumpDirty(Top(stack), order)) :
            LET done(calls) ==
                    LET f1 == WriteCalls(f, calls, 1)
                    IN  /\ wlog' = calls
                        /\ wcalls' = wcalls + Len(calls)
                        /\ IF DumpErr(calls) # "nil"
                           THEN /\ f' = f1
                                /\ ckpts' = ckpts
                                /\ Done("EndUpdate", DumpErr(calls))
                           ELSE /\ f' = MemTruncate(f1, RSize(<<>>, f1, 0))
                                /\ ckpts' = ckpts + 1
                                /\ Done("EndUpdate", "nil")
            IN  done(DumpCalls(dumpDirty(Top(stack), order), at, res))
    /\ txView' = [size |-> Top(stack).size, b |-> Bytes(Top(g)), plain |-> plain]
    /\ stack' = <<>>
    /\ tlevel' = 0
    /\ g' = <<Top(g)>>
    /\ snap' = <<>>
    /\ UNCHANGED <<lastRead, fPre, lastSnap, plain, depth, wal, walPos, walSynced, bwal, data, pc, sz, todo, dbSynced, crashAt, crashWal, crashF, openErr>>
    /\ UNCHANGED <<allocVars, punched, mem, inner, mop, cut, atx, auxVars>>

NextFlush ==
    \/ BeginUpdate
    \/ WriteAtFar
    \/ EndUpdateInner
    \/ EndUpdateFlush

SpecFlush ==
    Init /\ [][NextFlush]_vars

\* ---------------------------------------------------------------- NewACIDFiler on a WAL left behind
CommittedWal ==
    <<PktHeader, PktWrite(<<2, 3, 4, 5>>, 6), PktCheckpoint(10)>>

InitWals ==
    {<<>>, CommittedWal, <<PktHeader, TornCell>>, Append(CommittedWal, TornCell)}

\* NewACIDFiler with a WAL whose size is not a multiple of 16: recoverDb
\* leaves at `return err` with the nil err of a.wal.Stat(), nothing was read
OpenTorn ==
    /\ pc = "crashed" /\ WalTorn(wal)
    /\ pc' = "idle"
    /\ openErr' = "nil"
    /\ lastErr' = "nil"
    /\ walPos' = 0
    /\ f' = f
    /\ NewRollbackFilerState
    /\ UNCHANGED <<nops, wal, walSynced, bwal, data, sz, todo, dbSynced, txView, crashAt, crashWal, crashF>>
    /\ UNCHANGED <<allocVars, extVars>>

InitOpen ==
    /\ InitRB
    /\ wal \in InitWals
    /\ walPos = 0
    /\ walSynced = TRUE
    /\ bwal = BwalNil
    /\ data = <<>>
    /\ pc = "crashed"
    /\ sz = 0
    /\ todo = {}
    /\ dbSynced = TRUE
    /\ txView = NoView
    /\ crashAt = "none"
    /\ crashWal = wal
    /\ crashF = f
    /\ openErr = "nil"
    /\ InitAllocator({FLTPowersOf2})
    /\ InitExt

NextOpen ==
    \/ OpenTorn
    \/ NextACID

SpecOpen ==
    InitOpen /\ [][NextOpen]_vars

\* ---------------------------------------------------------------- InnerFiler over a MemFiler
\* NewFLTAllocator wraps its Filer in NewInnerFiler(f, flt.size) after the FLT
\* was written to f: the outer Filer holds at least off bytes.
InnerOffs ==
    {0, 16}

MemBufs ==
    {<<<<1, 7>>>>, <<<<1, 0>>>>, RZeros(2 * pgSize)}

MemOffs ==
    {-1, 0, pgSize \div 2, pgSize}

MemSizes ==
    {-1, 0, 1, pgSize}

MemHoles ==
    {<<-1, 2>>, <<0, -1>>, <<0, pgSize>>}

MemLive ==
    mop.seq < MaxMemOps

MemDone(op, err, off, n, buf, b) ==
    mop' = [op |-> op, err |-> err, off |-> off, n |-> n, buf |-> buf, b |-> b,
            seq |-> mop.seq + 1, had |-> DOMAIN mem.m]

\* the ranges of wr below size
CutClip(wr, size) ==
    {<<w[1], Min(w[2], size)>> : w \in {v \in wr : v[1] < size}}

\* InnerFiler.WriteAt
InnerWriteAt ==
    /\ MemLive
    /\ \E b \in MemBufs, off \in MemOffs :
        IF off < 0
        THEN /\ MemDone("WriteAt", "EINVAL", off, RLen(b), b, <<>>)
             /\ UNCHANGED <<mem, cut>>
        ELSE /\ mem' = MemFilerWriteAt(mem, b, inner + off)
             /\ cut' = IF cut.at = -1 THEN cut
                       ELSE [cut EXCEPT !.wr = @ \cup {<<inner + off, inner + off + RLen(b)>>}]
             /\ MemDone("WriteAt", "nil", off, RLen(b), b, <<>>)
    /\ UNCHANGED <<inner, rbVars, histVars, acidVars, allocVars, wlog, punched, atx, auxVars>>

\* InnerFiler.ReadAt
InnerReadAt ==
    /\ MemLive
    /\ \E off \in {-1, 0} :
        IF off < 0
        THEN MemDone("ReadAt", "EINVAL", off, 1, <<>>, <<>>)
        ELSE MemDone("ReadAt", IF 1 >= mem.size - (inner + off) THEN "EOF" ELSE "nil", off, 1,
                     <<>>, MemFilerReadAt(mem, 1, inner + off))
    /\ UNCHANGED <<mem, cut, inner, rbVars, histVars, acidVars, allocVars, wlog, punched, atx, auxVars>>

\* InnerFiler.Truncate
InnerTruncate ==
    /\ MemLive
    /\ \E size \in MemSizes :
        LET done(r) ==
                /\ mem' = r.mf
                /\ cut' = IF r.err # "nil" \/ size + inner >= mem.size THEN cut
                          ELSE IF cut.at = -1 \/ size + inner <= cut.at
                          THEN [at |-> size + inner, wr |-> {}]
                          ELSE [cut EXCEPT !.wr = CutClip(@, size + inner)]
                /\ MemDone("Truncate", r.err, 0, size, <<>>, <<>>)
        IN  done(MemFilerTruncate(mem, size + inner))
    /\ UNCHANGED <<inner, rbVars, histVars, acidVars, allocVars, wlog, punched, atx, auxVars>>

\* InnerFiler.PunchHole
InnerPunchHole ==
    /\ MemLive
    /\ \E h \in MemHoles :
        LET done(r) ==
                /\ mem' = r.mf
                /\ MemDone("PunchHole", r.err, h[1], h[2], <<>>, <<>>)
        IN  done(MemFilerPunchHole(mem, inner + h[1], h[2]))
    /\ UNCHANGED <<cut, inner, rbVars, histVars, acidVars, allocVars, wlog, punched, atx, auxVars>>

InitMem ==
    /\ InitStorage
    /\ f = NewMemFiler
    /\ InitAllocator({FLTPowersOf2})
    /\ wlog = <<>>
    /\ punched = NoPunch
    /\ inner \in InnerOffs
    /\ mem = MemFilerWriteAt(MemFilerNew, RCons(<<inner, 9>>, <<>>), 0)
    /\ mop = NoMop
    /\ cut = NoCut
    /\ atx = NoAtx
    /\ InitAux

NextMem ==
    \/ InnerWriteAt
    \/ InnerReadAt
    \/ InnerTruncate
    \/ InnerPunchHole

SpecMem ==
    InitMem /\ [][NextMem]_vars

\* ---------------------------------------------------------------- Allocator in a RollbackFiler
\* The Allocator of TestRollbackAllocator: its Filer and the Filer of its FLT
\* are one RollbackFiler, in which the test opens a nested level and rolls it
\* back.  Rollback drops the overlay of the level (r.bitFiler = parent), so
\* both Filers read as they did at BeginUpdate; fltSlot.head, the copy of
\* every head the flt keeps in memory, is not part of any Filer.
\* RollbackFiler.BeginUpdate, level 1 -> 2
AllocBeginUpdate ==
    /\ ALive /\ atx.state = "none"
    /\ atx' = [NoAtx EXCEPT !.state = "open", !.f = af, !.fltf = fltf, !.ref = ref,
                            !.seq = aop.seq]
    /\ aop' = [aop EXCEPT !.op = "BeginUpdate", !.h = 0, !.b = <<>>, !.valid = FALSE]
    /\ UNCHANGED <<af, flt, fltf, kind, ref, rbVars, histVars, acidVars>>
    /\ UNCHANGED <<wlog, punched, mem, inner, mop, cut, auxVars>>

\* RollbackFiler.Rollback, level 2 -> 1
AllocRollback ==
    /\ ~AFailed /\ atx.state = "open"
    /\ af' = atx.f
    /\ fltf' = atx.fltf
    /\ ref' = atx.ref
    /\ LET one == aop.op = "Alloc" /\ aop.err = "nil" /\ aop.seq = atx.seq + 1
       IN  atx' = [atx EXCEPT !.state = "rolled", !.seq = aop.seq, !.one = one,
                              !.b = IF one THEN ref[aop.h].b ELSE <<>>,
                              !.h = IF one THEN aop.h ELSE 0]
    /\ aop' = [aop EXCEPT !.op = "Rollback", !.h = 0, !.b = <<>>, !.valid = FALSE]
    /\ UNCHANGED <<flt, kind, rbVars, histVars, acidVars>>
    /\ UNCHANGED <<wlog, punched, mem, inner, mop, cut, auxVars>>

InitAllocTx ==
    /\ InitStorage
    /\ f = NewMemFiler
    /\ InitAllocator({FLTPowersOf2, FLTFull})
    /\ InitExt

NextAllocTx ==
    \/ Alloc
    \/ Free
    \/ AllocBeginUpdate
    \/ AllocRollback

SpecAllocTx ==
    InitAllocTx /\ [][NextAllocTx]_vars

\* ---------------------------------------------------------------- nesting counter of the plain Filers
\* result of a method of the plain Filer
FilerDone(op, err) ==
    fop' = [op |-> op, pend |-> pending, err |-> err]

\* MemFiler.BeginUpdate, OSFiler.BeginUpdate, SimpleFileFiler.BeginUpdate
FilerBeginUpdate ==
    /\ nest < MaxNest
    /\ nest' = nest + 1
    /\ pending' = pending + 1
    /\ FilerDone("BeginUpdate", "nil")
    /\ UNCHANGED <<filer, rbVars, histVars, acidVars, allocVars>>
    /\ UNCHANGED <<wlog, punched, mem, inner, mop, cut, atx, damage, dbVars, cm>>

\* MemFiler.EndUpdate, OSFiler.EndUpdate, SimpleFileFiler.EndUpdate
FilerEndUpdate ==
    /\ IF nest = 0
       THEN /\ FilerDone("EndUpdate", "EPERM")
            /\ UNCHANGED <<nest, pending>>
       ELSE /\ nest' = nest - 1
            /\ pending' = IF pending > 0 THEN pending - 1 ELSE 0
            /\ FilerDone("EndUpdate", "nil")
    /\ UNCHANGED <<filer, rbVars, histVars, acidVars, allocVars>>
    /\ UNCHANGED <<wlog, punched, mem, inner, mop, cut, atx, damage, dbVars, cm>>

\* MemFiler.Rollback, OSFiler.Rollback, SimpleFileFiler.Rollback: { return }
FilerRollback ==
    /\ nest' = nest
    /\ pending' = IF pending > 0 THEN pending - 1 ELSE 0
    /\ FilerDone("Rollback", "nil")
    /\ UNCHANGED <<filer, rbVars, histVars, acidVars, allocVars>>
    /\ UNCHANGED <<wlog, punched, mem, inner, mop, cut, atx, damage, dbVars, cm>>

\* MemFiler.Close, OSFiler.Close, SimpleFileFiler.Close
FilerClose ==
    /\ fop.op # "Close"
    /\ FilerDone("Close", IF nest # 0 THEN "EPERM" ELSE "nil")
    /\ UNCHANGED <<filer, nest, pending, rbVars, histVars, acidVars, allocVars>>
    /\ UNCHANGED <<wlog, punched, mem, inner, mop, cut, atx, damage, dbVars, cm>>

InitNest ==
    /\ InitStorage
    /\ f = NewMemFiler
    /\ InitAllocator({FLTPowersOf2})
    /\ wlog = <<>>
    /\ punched = NoPunch
    /\ mem = MemFilerNew
    /\ inner = 0
    /\ mop = NoMop
    /\ cut = NoCut
    /\ atx = NoAtx
    /\ filer \in PlainFilers
    /\ nest = 0
    /\ pending = 0
    /\ fop = NoFop
    /\ damage = NoDamage
    /\ cm = MemFilerNew
    /\ InitDB

NextNest ==
    \/ FilerBeginUpdate
    \/ FilerEndUpdate
    \/ FilerRollback
    \/ FilerClose

SpecNest ==
    InitNest /\ [][NextNest]_vars

\* ---------------------------------------------------------------- the FLT loaded from its Filer
\* ft.slots[i].(*fltSlot).head = b2h(b[7*i:]), slots counted from 1
LoadHead(F, i) ==
    b2h(FBytes(F, 7, 7 * (i - 1)))

\* the slots of which F holds a non-zero byte; b2h gives every other slot head 0
NonZeroSlots(F, k) ==
    {j \in {p \div 7 + 1 : p \in RNonZero(F.raw, 0)} : j <= nslots(k)}

\* newCannedFLT(f, kind) on the Filer F: a new table when F is empty, the
\* table read from F when F holds one, ErrILSEQ{ErrFLTLoad} otherwise
newCannedFLTOn(F, k) ==
    IF F.size = 0
    THEN [heads |-> newCannedFLT(k).heads, fltf |-> newCannedFLT(k).fltf, err |-> "nil"]
    ELSE IF F.size >= fltSize(k)
    THEN [heads |-> [i \in {j \in NonZeroSlots(F, k) : LoadHead(F, j) # 0} |-> LoadHead(F, i)],
          fltf |-> F, err |-> "nil"]
    ELSE [heads |-> <<>>, fltf |-> F, err |-> "ILSEQ"]

\* ---------------------------------------------------------------- dbm.DB: the big kernel lock
\* Every position of a DB method or of the victor at which the allocator or a
\* B-tree is read or written (db.root, treeCache.getTree, OpenBTree, BTree.Last,
\* BTree.Delete, RemoveBTree, the bodies of the methods) is a touch.

\* methods of the form db.enter(); defer db.leave(); body
LockedMethods ==
    {"Array", "Set", "Get", "Slice", "Delete", "RemoveArray", "RemoveFile", "Arrays", "Files",
     "Inc"}

DBMethods ==
    LockedMethods \cup {"Clear", "Close", "Sync", "File", "Name"}

\* the positions at which the allocator or a B-tree is touched
TouchPCs ==
    {"body", "array_", "getTree", "OpenBTree", "Last", "Delete", "RemoveBTree"}

\* db.bkl.Lock() by t, moving to pc
Lock(t, to) ==
    /\ bkl = "free"
    /\ bkl' = t
    /\ thr' = [thr EXCEPT ![t].at = to, ![t].locks = @ + 1]

\* db.bkl.Unlock() by t, moving to pc; unlocking a mutex that is not locked is
\* a fatal error of the runtime
Unlock(t, to) ==
    IF bkl = "free"
    THEN /\ thr' = [thr EXCEPT ![t].at = "fatal"]
         /\ UNCHANGED bkl
    ELSE /\ bkl' = "free"
         /\ thr' = [thr EXCEPT ![t].at = to, ![t].unlocks = @ + 1]

\* a caller invokes a method of db
DBCall(t) ==
    /\ thr[t].at = "idle" /\ thr[t].calls < MaxCalls
    /\ \E m \in DBMethods :
          thr' = [thr EXCEPT ![t] = [m |-> m,
                                     at |-> IF m = "File" THEN "getTree"
                                            ELSE IF m = "Name" THEN "return"
                                            ELSE "enter",
                                     locks |-> 0, unlocks |-> 0, calls |-> @.calls + 1]]
    /\ UNCHANGED <<bkl, dbst>>
    /\ UNCHANGED lockFrame

\* Sync on a DB without a file (db.f == nil) returns at once
DBSyncMem(t) ==
    /\ thr[t].at = "enter" /\ thr[t].m = "Sync"
    /\ thr' = [thr EXCEPT ![t].at = "return"]
    /\ UNCHANGED <<bkl, dbst>>
    /\ UNCHANGED lockFrame

\* db.enter()
DBEnter(t) ==
    /\ thr[t].at = "enter"
    /\ Lock(t, IF thr[t].m = "Clear" THEN "array_"
               ELSE IF thr[t].m = "Close" THEN "closed"
               ELSE IF thr[t].m = "Sync" THEN "Sync"
               ELSE "body")
    /\ UNCHANGED dbst
    /\ UNCHANGED lockFrame

\* the body of a method between db.enter() and the deferred db.leave(), with or
\* without an error; removeArray starts the victor: go db.victor(removes, h)
DBBody(t) ==
    /\ thr[t].at \in {"body", "Sync"}
    /\ \E err \in BOOLEAN :
          IF ~err /\ thr[t].m \in {"RemoveArray", "RemoveFile"} /\ thr["victor"].at = "idle"
                  /\ dbst.stop # "closed"
          THEN /\ thr' = [thr EXCEPT ![t].at = "leave",
                                     !["victor"] = [NoCall EXCEPT !.m = "victor", !.at = "start"]]
               /\ dbst' = [dbst EXCEPT !.stop = "open", !.finished = FALSE]
          ELSE /\ thr' = [thr EXCEPT ![t].at = "leave"]
               /\ UNCHANGED dbst
    /\ UNCHANGED bkl
    /\ UNCHANGED lockFrame

\* Clear: db.array_, then db.leave() on both paths
DBClear(t) ==
    /\ thr[t].at = "array_"
    /\ thr' = [thr EXCEPT ![t].at = "leave"]
    /\ UNCHANGED <<bkl, dbst>>
    /\ UNCHANGED lockFrame

\* Close: if db.closed { db.leave(); return }; db.closed = true; db.leave()
DBClosed(t) ==
    /\ thr[t].at = "closed"
    /\ IF dbst.closed
       THEN /\ thr' = [thr EXCEPT ![t].at = "leave"]
            /\ UNCHANGED dbst
       ELSE /\ thr' = [thr EXCEPT ![t].at = "leave, close"]
            /\ dbst' = [dbst EXCEPT !.closed = TRUE]
    /\ UNCHANGED bkl
    /\ UNCHANGED lockFrame

\* db.leave()
DBLeave(t) ==
    /\ thr[t].at \in {"leave", "leave, close"}
    /\ Unlock(t, IF thr[t].at = "leave" THEN "return" ELSE "close")
    /\ UNCHANGED dbst
    /\ UNCHANGED lockFrame

\* db.close(): close(db.stop); db.wg.Wait()
DBClose(t) ==
    /\ thr[t].at = "close"
    /\ IF dbst.stop = "nil"
       THEN /\ thr' = [thr EXCEPT ![t].at = "return"]
            /\ UNCHANGED dbst
       ELSE /\ thr' = [thr EXCEPT ![t].at = "Wait"]
            /\ dbst' = [dbst EXCEPT !.stop = "closed"]
    /\ UNCHANGED bkl
    /\ UNCHANGED lockFrame

\* db.wg.Wait() returns when the victor has called db.wg.Done()
DBWait(t) ==
    /\ thr[t].at = "Wait" /\ thr["victor"].at = "idle"
    /\ thr' = [thr EXCEPT ![t].at = "return"]
    /\ dbst' = [dbst EXCEPT !.stop = "nil"]
    /\ UNCHANGED bkl
    /\ UNCHANGED lockFrame

\* File: db.fileArray(false, name), that is db.fcache.getTree(db, ...)
DBFile(t) ==
    /\ thr[t].at = "getTree"
    /\ thr' = [thr EXCEPT ![t].at = "return"]
    /\ UNCHANGED <<bkl, dbst>>
    /\ UNCHANGED lockFrame

\* the method returns
DBReturn(t) ==
    /\ thr[t].at = "return"
    /\ thr' = [thr EXCEPT ![t].at = "idle", ![t].m = "none", ![t].locks = 0, ![t].unlocks = 0]
    /\ UNCHANGED <<bkl, dbst>>
    /\ UNCHANGED lockFrame

\* victor: db.bkl.Lock() before OpenBTree and before t.Last()
VictorLock ==
    /\ thr["victor"].at \in {"start", "Lock"}
    /\ Lock("victor", IF thr["victor"].at = "start" THEN "OpenBTree" ELSE "Last")
    /\ UNCHANGED dbst
    /\ UNCHANGED lockFrame

\* t, err := lldb.OpenBTree(db.alloc, nil, h); db.bkl.Unlock() on both paths
VictorOpen ==
    /\ thr["victor"].at = "OpenBTree"
    /\ \E err \in BOOLEAN :
          /\ Unlock("victor", IF err THEN "defer" ELSE "select")
          /\ dbst' = [dbst EXCEPT !.finished = err]
    /\ UNCHANGED lockFrame

\* select on db.stop at the head of the loop, the lock not held
VictorSelect ==
    /\ thr["victor"].at = "select"
    /\ thr' = [thr EXCEPT !["victor"].at = IF dbst.stop = "closed" THEN "defer" ELSE "Lock",
                          !["victor"].locks = 0, !["victor"].unlocks = 0]
    /\ UNCHANGED <<bkl, dbst>>
    /\ UNCHANGED lockFrame

\* k, v, err := t.Last(): an error or an empty tree ends the victor
VictorLast ==
    /\ thr["victor"].at = "Last"
    /\ \/ \E eof \in BOOLEAN :
             /\ Unlock("victor", "defer")
             /\ dbst' = [dbst EXCEPT !.finished = eof]
       \/ /\ dbst.keys = 0
          /\ Unlock("victor", "defer")
          /\ dbst' = [dbst EXCEPT !.finished = TRUE]
       \/ /\ dbst.keys > 0
          /\ thr' = [thr EXCEPT !["victor"].at = "Delete"]
          /\ UNCHANGED <<bkl, dbst>>
    /\ UNCHANGED lockFrame

\* t.Delete(k), db.leave() on both paths
VictorDelete ==
    /\ thr["victor"].at = "Delete"
    /\ \E err \in BOOLEAN :
          /\ Unlock("victor", IF err THEN "defer" ELSE "select")
          /\ dbst' = IF err THEN dbst ELSE [dbst EXCEPT !.keys = @ - 1]
    /\ UNCHANGED lockFrame

\* the deferred function: db.enter() if finished, db.wg.Done() otherwise
VictorDefer ==
    /\ thr["victor"].at = "defer"
    /\ IF dbst.finished
       THEN /\ bkl = "free"
            /\ bkl' = "victor"
            /\ thr' = [thr EXCEPT !["victor"].at = "RemoveBTree",
                                  !["victor"].locks = 1, !["victor"].unlocks = 0]
            /\ UNCHANGED dbst
       ELSE /\ thr' = [thr EXCEPT !["victor"] = [NoCall EXCEPT !.calls = 1]]
            /\ UNCHANGED <<bkl, dbst>>
    /\ UNCHANGED lockFrame

\* lldb.RemoveBTree(db.alloc, h); removes.delete(h); db.leave(); db.wg.Done()
VictorRemove ==
    /\ thr["victor"].at = "RemoveBTree"
    /\ Unlock("victor", "Done")
    /\ UNCHANGED dbst
    /\ UNCHANGED lockFrame

VictorDone ==
    /\ thr["victor"].at = "Done"
    /\ thr' = [thr EXCEPT !["victor"] = [NoCall EXCEPT !.calls = 1]]
    /\ UNCHANGED <<bkl, dbst>>
    /\ UNCHANGED lockFrame

InitLock ==
    /\ InitStorage
    /\ f = NewMemFiler
    /\ InitAllocator({FLTPowersOf2})
    /\ InitExt

NextLock ==
    \/ \E t \in Callers : DBCall(t)
    \/ \E t \in Callers : DBSyncMem(t)
    \/ \E t \in Callers : DBEnter(t)
    \/ \E t \in Callers : DBBody(t)
    \/ \E t \in Callers : DBClear(t)
    \/ \E t \in Callers : DBClosed(t)
    \/ \E t \in Callers : DBLeave(t)
    \/ \E t \in Callers : DBClose(t)
    \/ \E t \in Callers : DBWait(t)
    \/ \E t \in Callers : DBFile(t)
    \/ \E t \in Callers : DBReturn(t)
    \/ VictorLock
    \/ VictorOpen
    \/ VictorSelect
    \/ VictorLast
    \/ VictorDelete
    \/ VictorDefer
    \/ VictorRemove
    \/ VictorDone

SpecLock ==
    InitLock /\ [][NextLock]_vars

\* ---------------------------------------------------------------- recovery, interrupted
RECURSIVE RecoverWrites(_, _, _)
\* the loop of recoverDb over tr from enum.Current() on: db.WriteAt(v, k) in
\* ascending key order
RecoverWrites(db, tr, keys) ==
    IF keys = {} THEN db
    ELSE LET k == MinOf(keys)
         IN  RecoverWrites(MemWriteAt(db, tr[k], k), tr, keys \ {k})

\* recoverDb run to its end on db with the WAL file: the db it leaves, or db
\* itself when the WAL is rejected
recoverDb(file, db) ==
    IF Len(file) = 0 \/ WalTorn(file) THEN db
    ELSE LET r == ReadWal(file)
         IN  IF r.err # "nil" THEN db
             ELSE MemTruncate(RecoverWrites(db, r.tr, DOMAIN r.tr), r.sz)

\* the process dies inside recoverDb: the files keep what was written to them
CrashRecovering ==
    /\ Live /\ pc \in RecoverPCs
    /\ crashAt' = pc
    /\ crashWal' = wal
    /\ crashF' = f
    /\ pc' = "crashed"
    /\ data' = <<>>
    /\ todo' = {}
    /\ Done("Crash", "nil")
    /\ UNCHANGED <<f, stack, tlevel, lastRead, fPre, wcalls, ckpts, g, snap, lastSnap, plain, depth, wal, walPos, walSynced, bwal, sz, dbSynced, txView, openErr>>
    /\ UNCHANGED <<allocVars, extVars>>

NextRecover ==
    \/ NextACID
    \/ CrashRecovering

SpecRecover ==
    Init /\ [][NextRecover]_vars

\* ---------------------------------------------------------------- cache over a Filer
\* c := newCache(mem): the write-through cache c with the MemFiler c.m = cm in
\* front of the Filer mem.  MaxCachePages stands for maxCachePages, scaled to
\* the pages a run touches.
CachePages ==
    0..3

\* the orders in which `for k := range c.m.m` can meet the pages
RECURSIVE RangeOrders(_)
RangeOrders(S) ==
    IF S = {} THEN {<<>>}
    ELSE UNION {{<<p>> \o o : o \in RangeOrders(S \ {p})} : p \in S}

CacheBufs ==
    {RCons(<<1, 7>>, <<>>), RCons(<<pgSize, 7>>, <<>>)}

CacheOffs ==
    {0, pgSize \div 2, pgSize, 2 * pgSize}

CacheLens ==
    {1, pgSize + 1}

CacheSizes ==
    {1, pgSize + 1}

\* err of MemFiler.ReadAt: if int64(rem) >= avail { err = io.EOF }
MemFilerReadErr(mf, n, off) ==
    IF n >= mf.size - off THEN "EOF" ELSE "nil"

\* if len(c.m.m) >= maxCachePages { for k := range c.m.m { delete(c.m.m, k); break } }
CacheEvict(m, order) ==
    IF Cardinality(DOMAIN m) < MaxCachePages THEN m
    ELSE LET first == CHOOSE i \in 1..Len(order) :
                         /\ order[i] \in DOMAIN m
                         /\ \A j \in 1..(i - 1) : order[j] \notin DOMAIN m
         IN  MemFilerDelete(m, {order[first]})

\* cache.load(pgI, wr) on the page map m of c.m in front of the Filer F:
\* [m, pg, err]
CacheLoad(m, F, pgI, wr, order) ==
    IF pgI \in DOMAIN m THEN [m |-> m, pg |-> m[pgI], err |-> "nil"]
    ELSE LET m1 == CacheEvict(m, order)
             avail == F.size - pgI * pgSize
             rq == Min(avail, pgSize)
             pg == RTake(MemFilerReadAt(F, rq, pgI * pgSize), pgSize)
         IN  IF wr >= pgSize
             THEN [m |-> MemFilerSet(m1, pgI, zeroPage), pg |-> zeroPage, err |-> "nil"]
             ELSE IF avail <= 0 THEN [m |-> m1, pg |-> <<>>, err |-> "EOF"]
             ELSE IF MemFilerReadErr(F, rq, pgI * pgSize) # "nil"
             THEN [m |-> m1, pg |-> <<>>, err |-> MemFilerReadErr(F, rq, pgI * pgSize)]
             ELSE [m |-> MemFilerSet(m1, pgI, pg), pg |-> pg, err |-> "nil"]

RECURSIVE CacheReadLoop(_, _, _, _, _, _, _)
\* for rem != 0 && avail > 0 { ... } of cache.ReadAt, b being the bytes
\* copied so far: [m, b, err]
CacheReadLoop(m, F, pgI, pgO, rem, b, order) ==
    IF rem <= 0 THEN [m |-> m, b |-> b, err |-> "nil"]
    ELSE LET l == CacheLoad(m, F, pgI, -1, order)
             nc == Min(Min(rem, pgSize), pgSize - pgO)
         IN  IF l.err # "nil" THEN [m |-> l.m, b |-> b, err |-> l.err]
             ELSE CacheReadLoop(l.m, F, pgI + 1, 0, rem - nc,
                                RCat(b, RTake(RDrop(l.pg, pgO), nc)), order)

\* cache.ReadAt(b, off) with len(b) = n: [m, b, err]
CacheReadAt(m, F, n, off, order) ==
    LET avail == F.size - off
        truncated == n >= avail
        rem == IF truncated THEN avail ELSE n
        done(r) == IF r.err = "nil" /\ truncated THEN [r EXCEPT !.err = "EOF"] ELSE r
    IN  IF avail > 0 THEN done(CacheReadLoop(m, F, off \div pgSize, off % pgSize, rem, <<>>, order))
        ELSE [m |-> m, b |-> <<>>, err |-> IF truncated THEN "EOF" ELSE "nil"]

RECURSIVE CacheWriteLoop(_, _, _, _, _, _)
\* for rem != 0 { ... } of cache.WriteAt after the write to the Filer, F being
\* the Filer written: [m, err]
CacheWriteLoop(m, F, pgI, pgO, b, order) ==
    IF RLen(b) = 0 THEN [m |-> m, err |-> "nil"]
    ELSE LET l == CacheLoad(m, F, pgI, RLen(b), order)
             nc == Min(RLen(b), pgSize - pgO)
             copied(pg) == RCat(RCat(RTake(pg, pgO), RTake(b, nc)), RDrop(pg, pgO + nc))
         IN  IF l.err # "nil" THEN [m |-> l.m, err |-> l.err]
             ELSE CacheWriteLoop(MemFilerSet(l.m, pgI, copied(l.pg)), F, pgI + 1, 0,
                                 RDrop(b, nc), order)

\* cache.ReadAt
CacheRead ==
    /\ MemLive
    /\ \E n \in CacheLens, off \in CacheOffs, order \in RangeOrders(CachePages) :
          LET done(r) ==
                 /\ cm' = [cm EXCEPT !.m = r.m]
                 /\ MemDone("ReadAt", r.err, off, n, <<>>, r.b)
          IN  done(CacheReadAt(cm.m, mem, n, off, order))
    /\ UNCHANGED <<mem, cut, inner, rbVars, histVars, acidVars, allocVars, wlog, punched, atx,
                   nestVars, damage, dbVars>>

\* cache.WriteAt: c.Filer.WriteAt(b, off), then the pages of c.m, then c.m.size
CacheWrite ==
    /\ MemLive
    /\ \E b \in CacheBufs, off \in CacheOffs, order \in RangeOrders(CachePages) :
          LET done(F, r) ==
                 /\ mem' = F
                 /\ cm' = [m |-> r.m,
                           size |-> IF r.err = "nil" THEN Max(cm.size, off + RLen(b))
                                    ELSE cm.size]
                 /\ MemDone("WriteAt", r.err, off, RLen(b), b, <<>>)
              written(F) == done(F, CacheWriteLoop(cm.m, F, off \div pgSize, off % pgSize, b, order))
          IN  written(MemFilerWriteAt(mem, b, off))
    /\ UNCHANGED <<cut, inner, rbVars, histVars, acidVars, allocVars, wlog, punched, atx,
                   nestVars, damage, dbVars>>

\* cache.Truncate: c.m.Truncate(size); return c.Filer.Truncate(size)
CacheTruncate ==
    /\ MemLive
    /\ \E size \in CacheSizes :
          /\ cm' = MemFilerTruncate(cm, size).mf
          /\ mem' = MemFilerTruncate(mem, size).mf
          /\ MemDone("Truncate", MemFilerTruncate(mem, size).err, 0, size, <<>>, <<>>)
    /\ UNCHANGED <<cut, inner, rbVars, histVars, acidVars, allocVars, wlog, punched, atx,
                   nestVars, damage, dbVars>>

\* the Filer the cache is put in front of: empty, or 9 in every byte
CacheFilers ==
    {MemFilerNew, MemFilerWriteAt(MemFilerNew, RCons(<<2 * pgSize + 2, 9>>, <<>>), 0)}

InitCache ==
    /\ InitStorage
    /\ f = NewMemFiler
    /\ InitAllocator({FLTPowersOf2})
    /\ wlog = <<>>
    /\ punched = NoPunch
    /\ inner = 0
    /\ mem \in CacheFilers
    /\ mop = NoMop
    /\ cut = NoCut
    /\ atx = NoAtx
    /\ InitAux

NextCache ==
    \/ CacheRead
    \/ CacheWrite
    \/ CacheTruncate

SpecCache ==
    InitCache /\ [][NextCache]_vars

\* ---------------------------------------------------------------- claims
HasDirtyPage(bf) ==
    \E p \in DOMAIN bf.m : bf.m[p].dirty

\* C1: while a transaction is open (no outermost EndUpdate yet) the wrapped
\* Filer has the bytes and size it had when the transaction was opened, no
\* writerAt.WriteAt call was made and checkpoint was not invoked.
C1_NoWriteBeforeOutermostEndUpdate ==
    tlevel > 0 => (f = fPre /\ wcalls = 0 /\ ckpts = 0)

C1_Witness ==
    /\ tlevel = 1 /\ lastOp = "EndUpdate" /\ lastLevel = 2
    /\ HasDirtyPage(Top(stack))
    /\ fPre.size > 0

\* C4: after a transaction of WriteAt calls at level 1 and a successful
\* outermost EndUpdate, the wrapped Filer reads back like the mirror Filer
\* that received the same WriteAt calls directly.
C4_CommitEqualsMirror ==
    (tlevel = 0 /\ lastOp = "EndUpdate" /\ lastErr = "nil" /\ plain /\ depth = 1)
        => Bytes(f) = Bytes(Top(g))

\* C6: Rollback at a level t >= 1 returns nil, leaves level t - 1 and makes
\* ReadAt and Size return what they returned before the matching BeginUpdate.
C6_RollbackRestores ==
    (lastOp = "Rollback" /\ lastLevel >= 1)
        => /\ lastErr = "nil"
           /\ tlevel = lastLevel - 1
           /\ RBytes(stack, f, tlevel) = lastSnap

\* C7: after balanced nested BeginUpdate/EndUpdate pairs that all commit, the
\* wrapped Filer reads back like the mirror that received every WriteAt of
\* every level in call order.
C7_NestedCommitEqualsMirror ==
    (tlevel = 0 /\ lastOp = "EndUpdate" /\ lastErr = "nil" /\ plain /\ depth >= 2)
        => Bytes(f) = Bytes(Top(g))

\* C8: inside a transaction of WriteAt calls, ReadAt returns below the current
\* size the bytes last written at this or an enclosing level and the wrapped
\* Filer's bytes elsewhere; outside a transaction the wrapped Filer's bytes.
C8_DirtyReads ==
    /\ (tlevel > 0 /\ plain) => RBytes(stack, f, tlevel) = Bytes(Top(g))
    /\ tlevel = 0 => RBytes(stack, f, tlevel) = Bytes(f)

HasCheckpoint(file) ==
    \E i \in 1..Len(file) : Len(file[i]) >= 1 /\ file[i][1] = wpt00Checkpoint

\* C2: after a crash between the phase 1 fsync of the WAL and the truncation
\* of the WAL, NewACIDFiler succeeds, leaves a zero sized WAL and leaves db
\* with the committed state: the bytes of the mirror that received the
\* WriteAt calls of the transaction.
C2_RecoveryYieldsCommittedState ==
    (lastOp = "Open" /\ pc = "idle" /\ txView.plain
     /\ crashAt \in {"phase2", "dbtrunc", "dbsync", "waltrunc"})
        => /\ openErr = "nil"
           /\ Len(wal) = 0
           /\ Bytes(f) = txView.b

\* C3: NewACIDFiler on a non empty WAL without a checkpoint packet returns
\* no error and leaves db as it was.
C3_PartialWalAccepted ==
    (lastOp = "Open" /\ pc \notin RecoverPCs /\ Len(crashWal) # 0 /\ ~HasCheckpoint(crashWal))
        => /\ openErr = "nil"
           /\ f = crashF

\* C5: the size in the checkpoint packet, handed to db.Truncate, is the size
\* the transaction had when the outermost EndUpdate was called, and it is the
\* size of db once EndUpdate has returned.
C5_CheckpointSizeIsTransactionSize ==
    /\ (pc \in CommitPCs \ {"ckpt"}) => sz = txView.size
    /\ (pc = "idle" /\ lastOp = "EndUpdate" /\ lastErr = "nil" /\ lastLevel = 1) => f.size = txView.size

\* C9: during a commit db changes only when the checkpoint packet is in the
\* WAL file, nothing is left in the WAL buffer and the WAL is fsynced; and the
\* WAL is truncated only when every write of the data map was made and db was
\* truncated and fsynced after them.
C9_CommitOrder ==
    [][/\ (pc \in CommitPCs /\ f' # f)
            => (walSynced /\ bwal = BwalNil /\ HasCheckpoint(wal) /\ wal[Len(wal)] = PktCheckpoint(sz))
       /\ (pc \in CommitPCs /\ Len(wal) # 0 /\ Len(wal') = 0)
            => (todo = {} /\ dbSynced /\ f.size = sz)]_vars

C9_Witness ==
    /\ pc = "walsync" /\ Len(wal) = 0 /\ f # fPre /\ Cardinality(DOMAIN data) >= 2

\* C10: a block holds the content it was allocated with: after a successful
\* Alloc(b) = h, Get(h) returns exactly b, also after any later successful
\* Alloc, Free or Realloc on other handles, as long as h itself has been
\* neither freed nor resized.
C10_RoundTrip ==
    /\ ~AFailed =>
         \A h \in DOMAIN ref :
            ref[h].by = "Alloc" => AllocatorGet(af, h) = [err |-> "nil", b |-> ref[h].b]
    /\ (aop.op = "Get" /\ aop.h \in DOMAIN ref /\ ref[aop.h].by = "Alloc") =>
         (aop.err = "nil" /\ aop.b = ref[aop.h].b)

C10_Witness ==
    /\ aop.op = "Get" /\ aop.err = "nil"
    /\ aop.h \in DOMAIN ref
    /\ ref[aop.h].by = "Alloc" /\ ref[aop.h].others
    /\ aop.b = ref[aop.h].b
    /\ RLen(aop.b) > maxShort
    /\ DOMAIN flt # {}

\* The blocks of the file from handle h on, as a forward scan finds them
RECURSIVE BlocksFrom(_, _)
BlocksFrom(F, h) ==
    LET block(i) ==
            IF i.err # "nil" \/ i.s < 1 THEN <<[h |-> h, tag |-> -1, s |-> 0, p |-> 0, n |-> 0]>>
            ELSE <<[h |-> h, tag |-> i.tag, s |-> i.s, p |-> i.p, n |-> i.n]>>
                     \o BlocksFrom(F, h + i.s)
    IN IF h2off(h) >= F.size THEN <<>> ELSE block(nfo(F, h))

Blocks(F) ==
    BlocksFrom(F, 1)

\* C11: after a successful Realloc(h, b) the handle h is valid and Get(h)
\* returns exactly b, whichever way the block was resized (in place, at the
\* tail, into a free right neighbour, relocated, relocated again); with b the
\* content h already held, Get(h) is unchanged.
C11_ReallocRoundTrip ==
    /\ ~AFailed =>
         \A h \in DOMAIN ref :
            ref[h].by = "Realloc" => AllocatorGet(af, h) = [err |-> "nil", b |-> ref[h].b]
    /\ (aop.op = "Get" /\ aop.h \in DOMAIN ref /\ ref[aop.h].by = "Realloc") =>
         (aop.err = "nil" /\ aop.b = ref[aop.h].b)
    /\ (aop.op = "Realloc" /\ aop.err = "nil" /\ aop.old = ref[aop.h].b) =>
         AllocatorGet(af, aop.h).b = aop.old

\* a relocated block is resized and relocated again, to a long block
C11_Witness ==
    /\ aop.op = "Realloc" /\ aop.err = "nil"
    /\ aop.was = tagUsedRelocated
    /\ FByte(af, h2off(aop.h)) = tagUsedRelocated
    /\ aop.old # ref[aop.h].b
    /\ RLen(ref[aop.h].b) > maxShort
    /\ AllocatorGet(af, aop.h) = [err |-> "nil", b |-> ref[aop.h].b]

\* C12: after successful Alloc, Free and Realloc calls from an empty file,
\* Verify finds no error and its statistics satisfy
\* TotalAtoms = AllocAtoms + FreeAtoms.
C12_VerifyHolds ==
    LET holds(v) ==
            /\ v.err = "nil"
            /\ v.stats.TotalAtoms = v.stats.AllocAtoms + v.stats.FreeAtoms
    IN ~AFailed => holds(Verify(af, flt, kind))

C12_Witness ==
    LET seen(v) ==
            /\ v.err = "nil"
            /\ v.stats.FreeAtoms > 1
            /\ v.stats.Relocations > 0
            /\ v.stats.TotalAtoms = v.stats.AllocAtoms + v.stats.FreeAtoms
    IN aop.op = "Realloc" /\ aop.err = "nil" /\ Cardinality(DOMAIN flt) > 1
       /\ seen(Verify(af, flt, kind))

\* C13: after every successful Alloc, Free and Realloc the last block of a
\* non-empty file is a used block: a free block at the file tail is cut off,
\* never linked.
C13_NoFreeTail ==
    LET usedTail(bs) ==
            /\ bs # <<>>
            /\ bs[Len(bs)].tag >= 0
            /\ ~IsFreeTag(bs[Len(bs)].tag)
            /\ h2off(bs[Len(bs)].h + bs[Len(bs)].s) = af.size
    IN (~AFailed /\ af.size > 0) => usedTail(Blocks(af))

\* the last block was freed while its left neighbour was free: the file now
\* ends before both
C13_Witness ==
    /\ aop.op = "Free" /\ aop.err = "nil"
    /\ 0 < af.size /\ af.size < h2off(aop.h)
    /\ ~IsFreeTag(Blocks(af)[Len(Blocks(af))].tag)
    /\ h2off(Blocks(af)[Len(Blocks(af))].h + Blocks(af)[Len(Blocks(af))].s) = af.size

\* C14: after every successful Alloc, Free and Realloc no two free blocks are
\* adjacent in the file.
C14_NoAdjacentFree ==
    LET apart(bs) ==
            \A k \in 1..(Len(bs) - 1) :
               ~(bs[k].tag \in {tagFreeShort, tagFreeLong}
                 /\ bs[k + 1].tag \in {tagFreeShort, tagFreeLong})
    IN ~AFailed => apart(Blocks(af))

\* the atoms the block of handle h took before the last call
FreedAtoms ==
    IF aop.was = tagUsedRelocated THEN 1 ELSE n2atoms(RLen(aop.old))

\* a freed block that was joined with its free left neighbour
C14_Witness ==
    /\ aop.op = "Free" /\ aop.err = "nil"
    /\ \E k \in DOMAIN Blocks(af) :
          LET blk == Blocks(af)[k] IN
          /\ IsFreeTag(blk.tag)
          /\ blk.h < aop.h /\ aop.h < blk.h + blk.s
          /\ blk.s > FreedAtoms
          /\ k < Len(Blocks(af))

\* the list of slot head h, at most fuel blocks of it
RECURSIVE ListFrom(_, _, _)
ListFrom(F, h, fuel) ==
    IF h = 0 \/ fuel = 0 \/ h2off(h) >= F.size \/ h < 0 THEN <<>>
    ELSE <<h>> \o ListFrom(F, nfo(F, h).n, fuel - 1)

\* C15: every free block a forward scan finds is met exactly once when
\* walking the FLT lists from their heads, and in exactly one list; in every
\* list the head has prev = 0, the last block has next = 0, each block's prev
\* is its predecessor and each block has at least the minimum size of the
\* slot.
C15_FLTLinkage ==
    LET freeOf(bs) == {k \in DOMAIN bs : IsFreeTag(bs[k].tag)}
        linked(bs, lists) ==
            /\ \A k \in freeOf(bs) :
                  Cardinality({<<i, j>> \in UNION {{i} \X DOMAIN lists[i] : i \in DOMAIN lists} :
                                  lists[i][j] = bs[k].h}) = 1
            /\ \A i \in DOMAIN lists :
                  /\ lists[i] # <<>>
                  /\ Len(lists[i]) <= Cardinality(freeOf(bs))
                  /\ \A j \in DOMAIN lists[i] :
                        \E k \in freeOf(bs) :
                           /\ bs[k].h = lists[i][j]
                           /\ bs[k].p = IF j = 1 THEN 0 ELSE lists[i][j - 1]
                           /\ bs[k].n = IF j = Len(lists[i]) THEN 0 ELSE lists[i][j + 1]
                           /\ bs[k].s >= MinSize(kind, i)
        walk(bs) ==
            linked(bs, [i \in DOMAIN flt |-> ListFrom(af, flt[i], Len(bs) + 1)])
    IN ~AFailed => walk(Blocks(af))

\* a list of two free blocks
C15_Witness ==
    /\ ~AFailed /\ aop.op \in {"Free", "Realloc"}
    /\ \E i \in DOMAIN flt :
          /\ Len(ListFrom(af, flt[i], 3)) = 2
          /\ nfo(af, nfo(af, flt[i]).n).p = flt[i]
          /\ nfo(af, nfo(af, flt[i]).n).n = 0

\* C16: every relocated block holds the handle of a short or long used block,
\* never of a free or of a relocated block: Get follows one relocation and
\* rejects a second one.
C16_RelocTargets ==
    LET targets(bs) ==
            \A k \in DOMAIN bs :
               bs[k].tag = tagUsedRelocated =>
                  /\ \E j \in DOMAIN bs :
                        bs[j].h = bs[k].n /\ bs[j].tag >= 0 /\ bs[j].tag <= tagUsedLong
                  /\ GetFrom(af, bs[k].h, FALSE).err = "nil"
                  /\ GetFrom(af, bs[k].h, TRUE).err = "ILSEQ"
    IN ~AFailed => targets(Blocks(af))

\* a relocated block pointing to a long block, next to free blocks
C16_Witness ==
    /\ aop.op = "Free" /\ aop.err = "nil"
    /\ DOMAIN flt # {}
    /\ \E k \in DOMAIN Blocks(af) :
          /\ Blocks(af)[k].tag = tagUsedRelocated
          /\ nfo(af, Blocks(af)[k].n).tag = tagUsedLong
          /\ Blocks(af)[k].h \in DOMAIN ref

\* the atoms of the block of handle h and of its relocation target, as
\* intervals <<handle, first, last>>
Spans(F, h) ==
    LET own(i) ==
            IF i.err # "nil" THEN {}
            ELSE IF i.tag = tagUsedRelocated
            THEN {<<h, h, h>>, <<h, i.n, i.n + nfo(F, i.n).s - 1>>}
            ELSE {<<h, h, h + i.s - 1>>}
    IN own(nfo(F, h))

NoOverlap ==
    LET apart(spans) ==
            /\ \A x \in spans : 1 <= x[2] /\ x[2] <= x[3] /\ h2off(x[3]) < af.size
            /\ \A x, y \in spans : x # y => (x[3] < y[2] \/ y[3] < x[2])
    IN /\ \A h \in DOMAIN ref :
             h >= 1 /\ Spans(af, h) # {} /\ ~IsFreeTag(nfo(af, h).tag)
       /\ apart(UNION {Spans(af, h) : h \in DOMAIN ref})

\* C17: Alloc never returns a handle that is valid, and the atoms of distinct
\* valid handles, those of their relocation targets included, never overlap.
C17_DistinctHandles ==
    /\ (aop.op = "Alloc" /\ aop.err = "nil") => ~aop.valid
    /\ ~AFailed => NoOverlap

\* Alloc took a free block in front of a relocated block's atoms
C17_Witness ==
    /\ aop.op = "Alloc" /\ aop.err = "nil"
    /\ Cardinality(DOMAIN ref) = 2
    /\ h2off(aop.h) + 16 * n2atoms(RLen(ref[aop.h].b)) < af.size
    /\ \E h \in DOMAIN ref : nfo(af, h).tag = tagUsedRelocated
    /\ NoOverlap

\* C18: Alloc grows the file only when no free block of at least the
\* requested number of atoms exists, for every FLT kind.
C18_ReuseBeforeGrow ==
    [][(aop'.op = "Alloc" /\ aop'.err = "nil" /\ h2off(aop'.h) >= af.size) =>
          \A k \in DOMAIN Blocks(af) :
             ~(IsFreeTag(Blocks(af)[k].tag)
               /\ Blocks(af)[k].s >= n2atoms(RLen(ref'[aop'.h].b)))]_vars

\* C19: when every handle Alloc returned has been freed, the size of the
\* file is 0.
C19_AllFreedEmpty ==
    (~AFailed /\ DOMAIN ref = {}) => af.size = 0

\* the last of two handles, a relocated one, is freed
C19_Witness ==
    /\ aop.op = "Free" /\ aop.err = "nil"
    /\ aop.was = tagUsedRelocated
    /\ aop.seq >= 4
    /\ DOMAIN ref = {}
    /\ af.size = 0 /\ DOMAIN flt = {}

RECURSIVE NeededAtoms(_, _)
NeededAtoms(r, hs) ==
    IF hs = {} THEN 0
    ELSE LET h == CHOOSE x \in hs : TRUE
         IN n2atoms(RLen(r[h].b)) + NeededAtoms(r, hs \ {h})

\* C20: with compression off, Verify's AllocAtoms - Relocations (the same as
\* TotalAtoms - FreeAtoms - Relocations) is the sum over the valid handles of
\* the atoms their content needs.
C20_AllocAtoms ==
    LET exact(v) ==
            /\ v.err = "nil"
            /\ v.stats.AllocAtoms - v.stats.Relocations = NeededAtoms(ref, DOMAIN ref)
            /\ v.stats.TotalAtoms - v.stats.FreeAtoms - v.stats.Relocations
                  = NeededAtoms(ref, DOMAIN ref)
    IN ~AFailed => exact(Verify(af, flt, kind))

\* two valid handles, both relocated, and free atoms between the blocks
C20_Witness ==
    LET seen(v) ==
            /\ v.err = "nil"
            /\ v.stats.Relocations = 2
            /\ v.stats.FreeAtoms > 0
            /\ v.stats.AllocAtoms - 2 = NeededAtoms(ref, DOMAIN ref)
    IN ~AFailed /\ Cardinality(DOMAIN ref) = 2 /\ seen(Verify(af, flt, kind))


\* C21: an Alloc made inside a nested transaction level that Rollback undoes
\* leaves no trace in the Allocator and its FLT: the next Alloc of the same
\* content returns the same handle again and Verify reports no error.
C21_RollbackUndoesAlloc ==
    (/\ aop.op = "Alloc" /\ aop.err = "nil"
     /\ atx.state = "rolled" /\ atx.one /\ aop.seq = atx.seq + 1
     /\ aop.h \in DOMAIN ref /\ ref[aop.h].b = atx.b)
        => /\ aop.h = atx.h
           /\ Verify(af, flt, kind).err = "nil"


\* C22: an outermost EndUpdate invokes checkpoint exactly once when every
\* writerAt.WriteAt call succeeded; when a call fails, by an error or by a
\* short write, checkpoint is not invoked and EndUpdate returns an error; an
\* EndUpdate of an inner level never invokes checkpoint.
C22_CheckpointOnlyAfterSuccess ==
    (lastOp = "EndUpdate" /\ lastErr # "EPERM") =>
        IF lastLevel = 1
        THEN IF \E i \in DOMAIN wlog : wlog[i].err # "nil" \/ wlog[i].n # Len(wlog[i].b)
             THEN ckpts = 0 /\ lastErr # "nil"
             ELSE ckpts = 1 /\ lastErr = "nil"
        ELSE ckpts = 0

\* C26: the writerAt.WriteAt calls of one EndUpdate flush cover pairwise
\* disjoint byte ranges, and writing them in ascending offset order from the
\* data map gives the wrapped Filer the content that writing them in the
\* order logged gives it.
C26_FlushCallsCommute ==
    (lastOp = "EndUpdate" /\ lastErr = "nil" /\ lastLevel = 1) =>
        /\ \A i, j \in DOMAIN wlog :
              i < j => \/ wlog[i].off + Len(wlog[i].b) <= wlog[j].off
                       \/ wlog[j].off + Len(wlog[j].b) <= wlog[i].off
        /\ LET d == DataOfCalls(<<>>, wlog, 1)
           IN  Bytes(ApplyData(fPre, d, DOMAIN d)) = Bytes(WriteAllMem(fPre, wlog, 1))

\* C23: at nesting level 0 WriteAt, Truncate, PunchHole, EndUpdate and
\* Rollback fail with ErrPERM and change neither the nesting level nor the
\* wrapped Filer.
C23_LevelZeroEPERM ==
    [][(/\ tlevel = 0
        /\ nops' = nops + 1
        /\ lastOp' \in {"WriteAt", "Truncate", "PunchHole", "EndUpdate", "Rollback"})
            => (lastErr' = "EPERM" /\ tlevel' = 0 /\ f' = f /\ stack' = stack)]_vars

C23_Witness ==
    /\ lastOp = "PunchHole" /\ lastLevel = 0 /\ lastErr = "EPERM"
    /\ tlevel = 0 /\ f.size > 0 /\ nops > 3

\* C24: NewACIDFiler given a non empty WAL whose size is not a multiple of 16
\* reports an invalid WAL error.
C24_TornWalRejected ==
    (lastOp = "Open" /\ WalTorn(crashWal)) => openErr = "ILSEQ"

\* C25: in every commit epoch the WAL fsynced in phase 1 starts at offset 0
\* with one header packet, continues with write-data packets only and ends
\* with one checkpoint packet.
C25_EpochWal ==
    pc = "phase2" =>
        /\ Len(wal) >= 2
        /\ Len(wal[1]) = 3 /\ wal[1][1] = wpt00Header
        /\ Len(wal[Len(wal)]) = 2 /\ wal[Len(wal)][1] = wpt00Checkpoint
        /\ \A i \in 2..(Len(wal) - 1) : Len(wal[i]) = 3 /\ wal[i][1] = wpt00WriteData

\* C27: after a PunchHole inside a transaction the bytes of every whole
\* overlay page the range covers read as zeros inside the transaction, and
\* after the outermost EndUpdate that follows the wrapped Filer holds zeros
\* there as well.
C27_PunchHoleZeroes ==
    /\ (lastOp = "PunchHole" /\ lastErr = "nil" /\ punched.at = nops - 1) =>
            \A i \in punched.bytes : RBytes(stack, f, tlevel)[i + 1] = 0
    /\ (lastOp = "EndUpdate" /\ lastErr = "nil" /\ lastLevel = 1 /\ punched.at = nops - 2) =>
            \A i \in punched.bytes : i < f.size => MemByte(f, i) = 0

\* C28: once a MemFiler was truncated to a shorter size, every byte at or
\* beyond that size that was not written since reads as zero after the file
\* has grown again.
C28_TruncateDiscards ==
    (cut.at # -1 /\ mem.size > cut.at) =>
        \A i \in RNonZero(MemFilerReadAt(mem, mem.size - cut.at, cut.at), cut.at) :
            \E w \in cut.wr : w[1] <= i /\ i < w[2]

\* C29 as stated: the page map of a MemFiler never holds a page whose bytes
\* are all zero, and absent pages read as zeros.
C29_NoZeroPage ==
    /\ \A p \in DOMAIN mem.m : mem.m[p] # zeroPage
    /\ \A p \in 0..(mem.size \div pgSize) :
          (p \notin DOMAIN mem.m /\ p * pgSize < mem.size) =>
              MemFilerReadAt(mem, Min(pgSize, mem.size - p * pgSize), p * pgSize)
                  = RZeros(Min(pgSize, mem.size - p * pgSize))

\* C29 amended: after a WriteAt no page that the written bytes cover whole,
\* with zeros only, is allocated in the page map (it is deleted if it was
\* present), and absent pages read as zeros.
C29_ZeroPageWrites ==
    /\ (mop.op = "WriteAt" /\ mop.err = "nil") =>
          \A p \in 0..(mem.size \div pgSize) :
              (/\ inner + mop.off <= p * pgSize
               /\ (p + 1) * pgSize <= inner + mop.off + mop.n
               /\ RTake(RDrop(mop.buf, p * pgSize - (inner + mop.off)), pgSize) = zeroPage)
                  => p \notin DOMAIN mem.m
    /\ \A p \in 0..(mem.size \div pgSize) :
          (p \notin DOMAIN mem.m /\ p * pgSize < mem.size) =>
              MemFilerReadAt(mem, Min(pgSize, mem.size - p * pgSize), p * pgSize)
                  = RZeros(Min(pgSize, mem.size - p * pgSize))

C29_Witness ==
    /\ mop.op = "WriteAt" /\ mop.err = "nil"
    /\ \E p \in mop.had :
          /\ inner + mop.off <= p * pgSize
          /\ (p + 1) * pgSize <= inner + mop.off + mop.n
          /\ p \notin DOMAIN mem.m
          /\ p * pgSize < mem.size

\* C30: an InnerFiler with offset k answers every ReadAt, WriteAt, Truncate
\* and PunchHole with a negative offset or size with ErrINVAL, the outer size
\* never falls below k and the outer bytes below k never change.
C30_InnerFilerWindow ==
    /\ (mop.op \in {"ReadAt", "WriteAt", "Truncate", "PunchHole"} /\ (mop.off < 0 \/ mop.n < 0))
          => mop.err = "EINVAL"
    /\ mem.size >= inner
    /\ MemFilerReadAt(mem, inner, 0) = RCons(<<inner, 9>>, <<>>)

\* ---------------------------------------------------------------- Verify on a damaged file
\* The files of TestVerify0 and TestVerify2 are written by hand, each with one
\* structural error.  Here an error of the same kinds is put into a file the
\* Allocator has written: one byte string overwritten, the file extended, or a
\* head of the FLT changed.

\* the content length the head of the used block at h gives
UsedLen(F, h) ==
    IF FByte(F, h2off(h)) = tagUsedLong
    THEN m2n(FByte(F, h2off(h) + 1) * 256 + FByte(F, h2off(h) + 2))
    ELSE FByte(F, h2off(h))

\* the Allocator S with the bytes b written at off of its file
Poke(S, b, off, what, h, arg) ==
    [S |-> [S EXCEPT !.f = FWriteAt(S.f, RFromSeq(b), off)],
     what |-> [what |-> what, h |-> h, arg |-> arg]]

\* the Allocator S with the head of slot i of its FLT set to h
PokeHead(S, i, h, what) ==
    [S |-> SetHead(S, i, h), what |-> [what |-> what, h |-> h, arg |-> i]]

\* errors in the used block blk: a padding byte, the tail tag, the block
\* overwritten with a short free block, on no list or at the head of slot 1
DamageUsed(S, blk) ==
    LET end == h2off(blk.h + blk.s)
        short == <<tagFreeShort>> \o [i \in 1..14 |-> 0] \o <<tagFreeShort>>
        freed == Poke(S, short, h2off(blk.h), "free block", blk.h, 0)
    IN  (IF n2padding(UsedLen(S.f, blk.h)) > 0
         THEN {Poke(S, <<1>>, end - 2, "padding", blk.h, 1)} ELSE {})
        \cup {Poke(S, <<2>>, end - 1, "tail tag", blk.h, 2)}
        \cup (IF blk.s = 1 THEN {freed} ELSE {})
        \cup (IF blk.s = 1 /\ SlotHead(S, 1) = 0
              THEN {PokeHead(freed.S, 1, blk.h, "free block, listed")}
              ELSE {})

\* the atoms a damaged link is set to: none, the first, second and last atom
\* of every block, the atom after the end of the file
LinkTargets(F, bs) ==
    {0, F.size \div 16 + 1}
        \cup UNION {{bs[k].h, bs[k].h + 1, bs[k].h + bs[k].s - 1} \cap
                        (bs[k].h..(bs[k].h + bs[k].s - 1)) : k \in DOMAIN bs}

\* errors in the relocated block blk: its link set to another atom
DamageRelocated(S, blk, bs) ==
    {Poke(S, h2b(t), h2off(blk.h) + 1, "link", blk.h, t) : t \in LinkTargets(S.f, bs) \ {blk.n}}

\* errors in the free block blk: its tail tag, its prev, and the sizes at the
\* head and at the tail of a long free block
DamageFree(S, blk) ==
    LET end == h2off(blk.h + blk.s)
        off == h2off(blk.h)
    IN  {Poke(S, <<0>>, end - 1, "free tail tag", blk.h, 0)}
        \cup (IF blk.tag = tagFreeShort
              THEN {Poke(S, h2b(blk.h), off + 1, "prev", blk.h, blk.h)}
              ELSE {Poke(S, h2b(blk.h), off + 8, "prev", blk.h, blk.h),
                    Poke(S, h2b(blk.s + 1), off + 1, "head size", blk.h, blk.s + 1),
                    Poke(S, h2b(blk.s - 1), off + 1, "head size", blk.h, blk.s - 1),
                    Poke(S, h2b(blk.s + 1), end - 8, "tail size", blk.h, blk.s + 1)})

\* errors in the FLT: a head dropped, a head moved to the slot below or above
DamageHeads(S) ==
    UNION {{PokeHead(S, i, 0, "head dropped")}
            \cup {PokeHead(SetHead(S, i, 0), j, S.heads[i], "head moved") :
                    j \in {i - 1, i + 1} \cap ((1..nslots(S.kind)) \ DOMAIN S.heads)} :
           i \in DOMAIN S.heads}

\* the errors that can be put into the file and the FLT of S
Damages(S) ==
    LET bs == Blocks(S.f)
        of(blk) ==
            IF blk.tag < 0 THEN {}
            ELSE IF IsFreeTag(blk.tag) THEN DamageFree(S, blk)
            ELSE IF blk.tag = tagUsedRelocated THEN DamageRelocated(S, blk, bs)
            ELSE DamageUsed(S, blk)
    IN  UNION {of(bs[k]) : k \in DOMAIN bs}
        \cup DamageHeads(S)
        \cup (IF S.f.size > 0
              THEN {Poke(S, [i \in 1..8 |-> 0], S.f.size, "size", 0, S.f.size + 8)}
              ELSE {})

\* the file has not been damaged
Intact ==
    damage.what = "none"

\* one error is put into the file
Damage ==
    /\ Intact /\ ~AFailed
    /\ \E d \in Damages(AllocState) :
          /\ af' = d.S.f
          /\ flt' = d.S.heads
          /\ fltf' = d.S.fltf
          /\ damage' = d.what
    /\ UNCHANGED <<kind, ref, aop, rbVars, histVars, acidVars>>
    /\ UNCHANGED <<wlog, punched, mem, inner, mop, cut, atx, nestVars, dbVars, cm>>

IntactAlloc ==
    Intact /\ Alloc

IntactFree ==
    Intact /\ Free

IntactRealloc ==
    Intact /\ Realloc

InitVerify ==
    /\ InitStorage
    /\ f = NewMemFiler
    /\ InitAllocator({FLTPowersOf2})
    /\ InitExt

NextVerify ==
    \/ IntactAlloc
    \/ IntactFree
    \/ IntactRealloc
    \/ Damage

SpecVerify ==
    InitVerify /\ [][NextVerify]_vars

\* C31: the nesting counter of a plain Filer equals the number of BeginUpdate calls
\* not yet balanced by an EndUpdate or a Rollback; an EndUpdate or a Rollback
\* with nothing to balance is an error; Close succeeds when every BeginUpdate
\* has been balanced.
C31_NestingCounter ==
    /\ nest = pending
    /\ (fop.op \in {"EndUpdate", "Rollback"} /\ fop.pend = 0) => fop.err = "EPERM"
    /\ (fop.op = "Close" /\ fop.pend = 0) => fop.err = "nil"

C34_CeilDiv(a, b) ==
    (a + b - 1) \div b

\* the atoms of a used block as the sentence under C34 states them
C34_AtomsCeil(n) ==
    IF n = 0 THEN 1
    ELSE IF n <= maxShort THEN C34_CeilDiv(n + 1, 16) + 1
    ELSE C34_CeilDiv(n + 3, 16) + 1

\* the atoms of a used block with the quotients rounded down
C34_AtomsFloor(n) ==
    IF n <= maxShort THEN (n + 1) \div 16 + 1 ELSE (n + 3) \div 16 + 1

\* an Alloc that appends its block to the file
C34_Grows ==
    /\ aop'.op = "Alloc" /\ aop'.err = "nil" /\ aop'.seq = aop.seq + 1
    /\ af'.size > af.size

\* what Verify's verifyUsed finds at the handle the last Alloc returned
C34_Verified ==
    verifyUsed(af, aop.h, af.size \div 16, FByte(af, h2off(aop.h)), FALSE)

\* C34 as stated: a used block with content length N occupies ceil((N+1)/16) + 1
\* atoms for N <= 251 (one atom for N = 0) and ceil((N+3)/16) + 1 atoms for
\* 252 <= N <= 65787; Alloc writes that many atoms and Verify expects them.
C34_UsedAtomsCeil ==
    /\ [][C34_Grows =>
            /\ h2off(aop'.h) = af.size
            /\ af'.size - af.size = 16 * C34_AtomsCeil(RLen(ref'[aop'.h].b))]_vars
    /\ []((aop.op = "Alloc" /\ aop.err = "nil") =>
            /\ C34_Verified.err = "nil"
            /\ C34_Verified.atoms = C34_AtomsCeil(RLen(ref[aop.h].b)))

\* C34, amended: a used block with content length N occupies floor((N+1)/16) + 1
\* atoms for N <= 251 and floor((N+3)/16) + 1 atoms for 252 <= N <= 65787; Alloc
\* writes that many atoms and Verify expects them.
C34_UsedAtoms ==
    /\ [][C34_Grows =>
            /\ h2off(aop'.h) = af.size
            /\ af'.size - af.size = 16 * C34_AtomsFloor(RLen(ref'[aop'.h].b))]_vars
    /\ []((aop.op = "Alloc" /\ aop.err = "nil") =>
            /\ C34_Verified.err = "nil"
            /\ C34_Verified.dlen = RLen(ref[aop.h].b)
            /\ C34_Verified.atoms = C34_AtomsFloor(RLen(ref[aop.h].b)))

\* an Alloc of 252 bytes has appended a block of 16 atoms that Verify accepts
C34_Witness ==
    /\ aop.op = "Alloc" /\ aop.err = "nil"
    /\ RLen(ref[aop.h].b) = 252
    /\ af.size = h2off(aop.h) + 16 * 16
    /\ C34_Verified.atoms = 16

\* the last Alloc wrote a long used block
C35_LongAlloc ==
    /\ aop.op = "Alloc" /\ aop.err = "nil"
    /\ RLen(ref[aop.h].b) > maxShort

\* the two bytes after the tag of the block at the handle of the last Alloc
C35_Field ==
    FByte(af, h2off(aop.h) + 1) * 256 + FByte(af, h2off(aop.h) + 2)

\* m2n as the sentence under C35 states it
C35_m2nStated(x) ==
    IF x = 0 THEN 65536 + 252 ELSE x + 252

\* content lengths at the ends of the range of long blocks and around 65536
C35_Lengths ==
    (252..260) \cup (65530..65540) \cup (65780..maxRq)

\* C35 as stated: the length field of a long used block holds N - 252 mod 65536,
\* and m2n(x) = 65536 + 252 if x = 0, else x + 252, gives N back.
C35_LengthFieldMinus252 ==
    C35_LongAlloc =>
        /\ C35_Field = (RLen(ref[aop.h].b) - 252) % 65536
        /\ C35_m2nStated(C35_Field) = RLen(ref[aop.h].b)

\* C35, amended: the length field of a long used block holds N mod 65536, and
\* m2n(x) = x + 65536 if x <= 251, else x, gives N back for 252 <= N <= 65787.
C35_LengthField ==
    /\ C35_LongAlloc =>
        /\ FByte(af, h2off(aop.h)) = tagUsedLong
        /\ C35_Field = RLen(ref[aop.h].b) % 65536
        /\ m2n(C35_Field) = RLen(ref[aop.h].b)
    /\ \A n \in C35_Lengths : n2m(n) \in 0..65535 /\ m2n(n2m(n)) = n

\* a block of maxRq bytes, the length field wrapped around to 251
C35_Witness ==
    /\ C35_LongAlloc
    /\ RLen(ref[aop.h].b) = maxRq
    /\ C35_Field = 251
    /\ m2n(C35_Field) = maxRq

\* the structural invariants of the Allocator's file, on the blocks bs a scan
\* from handle 1 finds: the size is a multiple of 16 and the blocks fill the file
C33_Aligned(bs) ==
    /\ af.size % 16 = 0
    /\ \A k \in DOMAIN bs : bs[k].tag >= 0
    /\ bs # <<>> => h2off(bs[Len(bs)].h + bs[Len(bs)].s) = af.size

\* no free block at the tail, no two free blocks side by side
C33_FreeApart(bs) ==
    /\ bs # <<>> => ~IsFreeTag(bs[Len(bs)].tag)
    /\ \A k \in 1..(Len(bs) - 1) : ~(IsFreeTag(bs[k].tag) /\ IsFreeTag(bs[k + 1].tag))

\* every relocated block holds the handle of a short or long used block
C33_Relocated(bs) ==
    \A k \in DOMAIN bs :
       bs[k].tag = tagUsedRelocated =>
          \E j \in DOMAIN bs : bs[j].h = bs[k].n /\ bs[j].tag \in 0..tagUsedLong

\* the padding of every used block is zero and its last byte is a tail tag
C33_Padded(bs) ==
    \A k \in DOMAIN bs :
       LET end == h2off(bs[k].h + bs[k].s)
           pad == IF bs[k].tag = tagUsedRelocated THEN 7 ELSE n2padding(UsedLen(af, bs[k].h))
       IN  (bs[k].tag >= 0 /\ ~IsFreeTag(bs[k].tag)) =>
              /\ \A i \in 1..pad : FByte(af, end - 1 - i) = 0
              /\ FByte(af, end - 1) \in {tagNotCompressed, tagCompressed}

\* the size and the tag at the tail of every free block are those at its head
C33_FreeTails(bs) ==
    \A k \in DOMAIN bs :
       LET end == h2off(bs[k].h + bs[k].s) IN
       /\ IsFreeTag(bs[k].tag) => FByte(af, end - 1) = bs[k].tag
       /\ bs[k].tag = tagFreeLong => b2h(FBytes(af, 7, end - 8)) = bs[k].s

\* every free block is on exactly one list of the FLT, each list is linked both
\* ways from its head and holds blocks of at least the minimum size of its slot
C33_Listed(bs) ==
    LET freeOf == {k \in DOMAIN bs : IsFreeTag(bs[k].tag)}
        lists == [i \in DOMAIN flt |-> ListFrom(af, flt[i], Len(bs) + 1)]
    IN  /\ \A k \in freeOf :
              Cardinality({<<i, j>> \in UNION {{i} \X DOMAIN lists[i] : i \in DOMAIN lists} :
                              lists[i][j] = bs[k].h}) = 1
        /\ \A i \in DOMAIN lists :
              /\ Len(lists[i]) <= Cardinality(freeOf)
              /\ \A j \in DOMAIN lists[i] :
                    \E k \in freeOf :
                       /\ bs[k].h = lists[i][j]
                       /\ bs[k].p = IF j = 1 THEN 0 ELSE lists[i][j - 1]
                       /\ bs[k].n = IF j = Len(lists[i]) THEN 0 ELSE lists[i][j + 1]
                       /\ bs[k].s >= MinSize(kind, i)

C33_Structure(bs) ==
    /\ C33_Aligned(bs)
    /\ C33_FreeApart(bs)
    /\ C33_Relocated(bs)
    /\ C33_Padded(bs)
    /\ C33_FreeTails(bs)
    /\ C33_Listed(bs)

\* C33: Verify returns nil only for a file that satisfies every structural
\* invariant: whenever one of them is broken, Verify returns an error.
C33_VerifyComplete ==
    (~Intact /\ Verify(af, flt, kind).err = "nil") => C33_Structure(Blocks(af))

\* C36: whenever a DB method or the victor touches the allocator or a B-tree it
\* holds the big kernel lock; when a method returns or a step of the victor
\* ends, the goroutine does not hold the lock and has unlocked it as often as
\* it locked it, at most once; no Unlock is called on the free lock.
C36_BigKernelLock ==
    \A t \in Threads :
       /\ thr[t].at \in TouchPCs => bkl = t
       /\ thr[t].at \in {"return", "select", "defer", "Done", "idle"} =>
             (bkl # t /\ thr[t].unlocks = thr[t].locks)
       /\ thr[t].locks <= 1 /\ thr[t].unlocks <= thr[t].locks
       /\ thr[t].at # "fatal"

\* C37: a transaction that writes nothing (BeginUpdate, then the outermost
\* EndUpdate, with no WriteAt, Truncate, PunchHole, Rollback or nested
\* transaction between them) commits without an error and without a panic, on
\* a RollbackFiler and on an ACIDFiler0; the wrapped Filer has the bytes and
\* the size it had before, and once the commit is over the WAL is zero-sized.
C37_EmptyTransaction ==
    (lastOp = "EndUpdate" /\ lastLevel = 1 /\ plain /\ depth = 1 /\ wcalls = 0) =>
       /\ lastErr \in {"nil", "pending"}
       /\ f.size = fPre.size /\ Bytes(f) = Bytes(fPre)
       /\ pc = "idle" => (lastErr = "nil" /\ wal = <<>>)

SameFile(a, b) ==
    a.size = b.size /\ Bytes(a) = Bytes(b)

\* the WAL still holds the whole transaction when phase 2 or recoverDb is at p
BeforeWalTruncate ==
    {"phase2", "dbtrunc", "dbsync", "waltrunc", "rphase2", "rdbtrunc", "rdbsync", "rwaltrunc"}

C39_PunchHoleFrame ==
    [][(lastOp' = "PunchHole" /\ lastErr' = "nil" /\ nops' = nops + 1) =>
          /\ RSize(stack', f', tlevel') = RSize(stack, f, tlevel)
          /\ \A i \in (0..(RSize(stack, f, tlevel) - 1)) \ punched'.bytes :
                RBytes(stack', f', tlevel')[i + 1] = RBytes(stack, f, tlevel)[i + 1]]_vars

\* C40: the write-through cache is coherent: after any sequence of ReadAt,
\* WriteAt and Truncate through the cache, evictions included, a ReadAt
\* through the cache has returned the bytes, the byte count and the error the
\* same ReadAt returns on the wrapped Filer.
C40_CacheCoherent ==
    mop.op = "ReadAt" =>
        /\ mop.b = MemFilerReadAt(mem, mop.n, mop.off)
        /\ mop.err = MemFilerReadErr(mem, mop.n, mop.off)
====
